---- MODULE Spec2Model ----
(***************************************************************************)
(* The Midaz dispatch layer of lerian-mcp-server: the schema registry      *)
(* (src/api/schemas), the action resolver and dispatch facade              *)
(* (src/api/router.js), the request builder and HTTP executor              *)
(* (src/api/client.js), the midaz-execute and midaz-discover tool          *)
(* handlers, the legacy financial tools (src/tools), and the utilities:    *)
(* signed cursors (src/util/cursor-security.js), the loading of a          *)
(* configuration file (src/config.js), the error monitor and its log       *)
(* files (src/util/error-monitoring.ts), request deduplication             *)
(* (src/util/http-pool.ts), the cache wrapper and the secret manager       *)
(* (src/util/secret-manager.js).                                           *)
(*                                                                         *)
(* JavaScript strings are TLA+ strings; a character is a string of length  *)
(* one.  A slot that holds an object or is undefined/null is a sequence of *)
(* length one or zero (Obj(x) / None); a string-typed slot that holds      *)
(* undefined holds the reserved value `undefined`.                         *)
(***************************************************************************)
EXTENDS Integers, Sequences, FiniteSets, TLC

----------------------------------------------------------------------------
(* JavaScript values *)

None == <<>>

Obj(x) == <<x>>

IsSet(o) == Len(o) > 0

undefined == "<undefined>"

\* `${x}` and String(x): undefined prints as the text "undefined".
ToText(x) == IF x = undefined THEN "undefined" ELSE x

\* Truthiness of a string-typed slot: undefined and "" are falsy.
Truthy(x) == x # undefined /\ x # ""

----------------------------------------------------------------------------
(* String primitives of the runtime used by the code *)

\* String.prototype.includes
includes(s, n) ==
  \E i \in 1..(Len(s) - Len(n) + 1) : SubSeq(s, i, i + Len(n) - 1) = n

\* String.prototype.indexOf, 1-based; 0 when n does not occur.
indexOf(s, n) ==
  IF includes(s, n)
  THEN CHOOSE i \in 1..(Len(s) - Len(n) + 1) :
         /\ SubSeq(s, i, i + Len(n) - 1) = n
         /\ \A j \in 1..(i - 1) : SubSeq(s, j, j + Len(n) - 1) # n
  ELSE 0

\* String.prototype.replace(pattern, replacement) with a string pattern:
\* only the first occurrence is replaced.  (The replacement strings the code
\* passes come out of encodeURIComponent and so hold no "$" pattern.)
replace(s, pat, rep) ==
  LET i == indexOf(s, pat)
  IN  IF i = 0 THEN s
      ELSE SubSeq(s, 1, i - 1) \o rep \o SubSeq(s, i + Len(pat), Len(s))

\* Array.prototype.join
RECURSIVE join(_, _)
join(xs, sep) ==
  IF Len(xs) = 0 THEN ""
  ELSE IF Len(xs) = 1 THEN xs[1]
  ELSE xs[1] \o sep \o join(Tail(xs), sep)

\* Characters encodeURIComponent leaves alone: A-Z a-z 0-9 - _ . ! ~ * ' ( )
UriUnreserved ==
  "ABCDEFGHIJKLMNOPQRSTUVWXYZabcdefghijklmnopqrstuvwxyz0123456789-_.!~*'()"

\* The %XX escape of one ASCII character outside UriUnreserved.
PercentEscape(c) ==
  CASE c = " " -> "%20"
    [] c = "\"" -> "%22"
    [] c = "#" -> "%23"
    [] c = "$" -> "%24"
    [] c = "%" -> "%25"
    [] c = "&" -> "%26"
    [] c = "+" -> "%2B"
    [] c = "," -> "%2C"
    [] c = "/" -> "%2F"
    [] c = ":" -> "%3A"
    [] c = "=" -> "%3D"
    [] c = "?" -> "%3F"
    [] c = "@" -> "%40"
    [] c = "{" -> "%7B"
    [] c = "}" -> "%7D"

encodeURIComponent(s) ==
  LET Escaped(c) == IF includes(UriUnreserved, c) THEN c ELSE PercentEscape(c)
  IN  join([i \in 1..Len(s) |-> Escaped(SubSeq(s, i, i))], "")

\* URLSearchParams.toString(): application/x-www-form-urlencoded; it keeps
\* A-Z a-z 0-9 * - . _ and writes a space as "+".
FormUnreserved ==
  "ABCDEFGHIJKLMNOPQRSTUVWXYZabcdefghijklmnopqrstuvwxyz0123456789*-._"

formUrlEncode(s) ==
  LET Escaped(c) ==
        IF includes(FormUnreserved, c) THEN c
        ELSE IF c = " " THEN "+"
        ELSE IF c = "!" THEN "%21"
        ELSE IF c = "'" THEN "%27"
        ELSE IF c = "(" THEN "%28"
        ELSE IF c = ")" THEN "%29"
        ELSE IF c = "~" THEN "%7E"
        ELSE PercentEscape(c)
  IN  join([i \in 1..Len(s) |-> Escaped(SubSeq(s, i, i))], "")

LowerCase == "abcdefghijklmnopqrstuvwxyz"

UpperCase == "ABCDEFGHIJKLMNOPQRSTUVWXYZ"

\* String.prototype.toUpperCase on ASCII text.
toUpperCase(s) ==
  LET Upper(c) == IF includes(LowerCase, c)
                  THEN SubSeq(UpperCase, indexOf(LowerCase, c),
                              indexOf(LowerCase, c))
                  ELSE c
  IN  join([i \in 1..Len(s) |-> Upper(SubSeq(s, i, i))], "")

\* The keys of an object whose properties are kept as an ordered sequence of
\* records with a `name` field (Object.keys / Object.entries order).
keys(entries) == [i \in 1..Len(entries) |-> entries[i].name]

HasOwn(entries, k) == \E i \in 1..Len(entries) : entries[i].name = k

\* The property of that name; a later write to the same key replaces the
\* value in place, so names are unique.
Own(entries, k) == entries[CHOOSE i \in 1..Len(entries) : entries[i].name = k]

\* Property names every plain object inherits from Object.prototype.
ObjectPrototypeKeys ==
  { "constructor", "toString", "toLocaleString", "valueOf", "hasOwnProperty",
    "isPrototypeOf", "propertyIsEnumerable", "__proto__",
    "__defineGetter__", "__defineSetter__", "__lookupGetter__",
    "__lookupSetter__" }

----------------------------------------------------------------------------
(* Schema registry: the static resource descriptors *)

PathParam(n, t, r) == [name |-> n, type |-> t, required |-> r]

QueryParam(n, t) == [name |-> n, type |-> t]

\* One entry of a schema's `actions` object.  pathParams and queryParams are
\* None or Obj(<ordered entries>); input and example are None or Obj(<a token
\* standing for the field-spec tree>), which this layer never inspects.
ActionDef(n, m, p, pp, qp, inp, ex, d) ==
  [ name |-> n, method |-> m, path |-> p, pathParams |-> pp,
    queryParams |-> qp, input |-> inp, example |-> ex, description |-> d ]

organizationsSchema ==
  [ resource |-> "organizations", component |-> "onboarding",
    description |-> "Top-level entities representing companies or business units in Midaz",
    actions |-> <<
      ActionDef("create", "POST",
        "/v1/organizations",
        None,
        None, Obj("input of organizations.create"), Obj("example of organizations.create"),
        "Create a new organization"),
      ActionDef("get", "GET",
        "/v1/organizations/:id",
        Obj(<<PathParam("id", "string", TRUE)>>),
        None, None, None,
        "Get organization by ID"),
      ActionDef("list", "GET",
        "/v1/organizations",
        None,
        Obj(<<QueryParam("limit", "number"), QueryParam("page", "number"), QueryParam("metadata", "object")>>), None, None,
        "List all organizations"),
      ActionDef("update", "PATCH",
        "/v1/organizations/:id",
        Obj(<<PathParam("id", "string", TRUE)>>),
        None, Obj("input of organizations.update"), None,
        "Update an organization (partial update)"),
      ActionDef("delete", "DELETE",
        "/v1/organizations/:id",
        Obj(<<PathParam("id", "string", TRUE)>>),
        None, None, None,
        "Delete an organization"),
      ActionDef("count", "HEAD",
        "/v1/organizations/metrics/count",
        None,
        None, None, None,
        "Count organizations (returns count in Midaz-Total-Count header)") >> ]

ledgersSchema ==
  [ resource |-> "ledgers", component |-> "onboarding",
    description |-> "Organizational units within an organization that group related financial accounts and assets",
    actions |-> <<
      ActionDef("create", "POST",
        "/v1/organizations/:organizationId/ledgers",
        Obj(<<PathParam("organizationId", "string", TRUE)>>),
        None, Obj("input of ledgers.create"), Obj("example of ledgers.create"),
        "Create a new ledger"),
      ActionDef("get", "GET",
        "/v1/organizations/:organizationId/ledgers/:id",
        Obj(<<PathParam("organizationId", "string", TRUE), PathParam("id", "string", TRUE)>>),
        None, None, None,
        "Get ledger by ID"),
      ActionDef("list", "GET",
        "/v1/organizations/:organizationId/ledgers",
        Obj(<<PathParam("organizationId", "string", TRUE)>>),
        Obj(<<QueryParam("limit", "number"), QueryParam("page", "number"), QueryParam("metadata", "object")>>), None, None,
        "List ledgers in an organization"),
      ActionDef("update", "PATCH",
        "/v1/organizations/:organizationId/ledgers/:id",
        Obj(<<PathParam("organizationId", "string", TRUE), PathParam("id", "string", TRUE)>>),
        None, Obj("input of ledgers.update"), None,
        "Update a ledger"),
      ActionDef("delete", "DELETE",
        "/v1/organizations/:organizationId/ledgers/:id",
        Obj(<<PathParam("organizationId", "string", TRUE), PathParam("id", "string", TRUE)>>),
        None, None, None,
        "Delete a ledger"),
      ActionDef("count", "HEAD",
        "/v1/organizations/:organizationId/ledgers/metrics/count",
        Obj(<<PathParam("organizationId", "string", TRUE)>>),
        None, None, None,
        "Count ledgers in an organization") >> ]

assetsSchema ==
  [ resource |-> "assets", component |-> "onboarding",
    description |-> "Financial instruments within a ledger (currencies, crypto, commodities, etc.)",
    actions |-> <<
      ActionDef("create", "POST",
        "/v1/organizations/:organizationId/ledgers/:ledgerId/assets",
        Obj(<<PathParam("organizationId", "string", TRUE), PathParam("ledgerId", "string", TRUE)>>),
        None, Obj("input of assets.create"), Obj("example of assets.create"),
        "Create a new asset"),
      ActionDef("get", "GET",
        "/v1/organizations/:organizationId/ledgers/:ledgerId/assets/:id",
        Obj(<<PathParam("organizationId", "string", TRUE), PathParam("ledgerId", "string", TRUE), PathParam("id", "string", TRUE)>>),
        None, None, None,
        "Get asset by ID"),
      ActionDef("list", "GET",
        "/v1/organizations/:organizationId/ledgers/:ledgerId/assets",
        Obj(<<PathParam("organizationId", "string", TRUE), PathParam("ledgerId", "string", TRUE)>>),
        Obj(<<QueryParam("limit", "number"), QueryParam("page", "number"), QueryParam("metadata", "object")>>), None, None,
        "List assets in a ledger"),
      ActionDef("update", "PATCH",
        "/v1/organizations/:organizationId/ledgers/:ledgerId/assets/:id",
        Obj(<<PathParam("organizationId", "string", TRUE), PathParam("ledgerId", "string", TRUE), PathParam("id", "string", TRUE)>>),
        None, Obj("input of assets.update"), None,
        "Update an asset"),
      ActionDef("delete", "DELETE",
        "/v1/organizations/:organizationId/ledgers/:ledgerId/assets/:id",
        Obj(<<PathParam("organizationId", "string", TRUE), PathParam("ledgerId", "string", TRUE), PathParam("id", "string", TRUE)>>),
        None, None, None,
        "Delete an asset"),
      ActionDef("count", "HEAD",
        "/v1/organizations/:organizationId/ledgers/:ledgerId/assets/metrics/count",
        Obj(<<PathParam("organizationId", "string", TRUE), PathParam("ledgerId", "string", TRUE)>>),
        None, None, None,
        "Count assets in a ledger") >> ]

aliasesSchema ==
  [ resource |-> "aliases", component |-> "crm",
    description |-> "Banking aliases for holders with banking details, regulatory fields, and related parties",
    actions |-> <<
      ActionDef("create", "POST",
        "/v1/organizations/:organizationId/ledgers/:ledgerId/holders/:holderId/aliases",
        Obj(<<PathParam("organizationId", "string", TRUE), PathParam("ledgerId", "string", TRUE), PathParam("holderId", "string", TRUE)>>),
        None, Obj("input of aliases.create"), Obj("example of aliases.create"),
        "Create an alias for a holder"),
      ActionDef("get", "GET",
        "/v1/organizations/:organizationId/ledgers/:ledgerId/holders/:holderId/aliases/:id",
        Obj(<<PathParam("organizationId", "string", TRUE), PathParam("ledgerId", "string", TRUE), PathParam("holderId", "string", TRUE), PathParam("id", "string", TRUE)>>),
        None, None, None,
        "Get alias by ID"),
      ActionDef("listByHolder", "GET",
        "/v1/organizations/:organizationId/ledgers/:ledgerId/holders/:holderId/aliases",
        Obj(<<PathParam("organizationId", "string", TRUE), PathParam("ledgerId", "string", TRUE), PathParam("holderId", "string", TRUE)>>),
        Obj(<<QueryParam("limit", "number"), QueryParam("page", "number")>>), None, None,
        "List aliases for a specific holder"),
      ActionDef("listAll", "GET",
        "/v1/organizations/:organizationId/ledgers/:ledgerId/aliases",
        Obj(<<PathParam("organizationId", "string", TRUE), PathParam("ledgerId", "string", TRUE)>>),
        Obj(<<QueryParam("limit", "number"), QueryParam("page", "number")>>), None, None,
        "List all aliases in a ledger"),
      ActionDef("update", "PATCH",
        "/v1/organizations/:organizationId/ledgers/:ledgerId/holders/:holderId/aliases/:id",
        Obj(<<PathParam("organizationId", "string", TRUE), PathParam("ledgerId", "string", TRUE), PathParam("holderId", "string", TRUE), PathParam("id", "string", TRUE)>>),
        None, Obj("input of aliases.update"), None,
        "Update an alias"),
      ActionDef("delete", "DELETE",
        "/v1/organizations/:organizationId/ledgers/:ledgerId/holders/:holderId/aliases/:id",
        Obj(<<PathParam("organizationId", "string", TRUE), PathParam("ledgerId", "string", TRUE), PathParam("holderId", "string", TRUE), PathParam("id", "string", TRUE)>>),
        None, None, None,
        "Delete an alias"),
      ActionDef("deleteRelatedParty", "DELETE",
        "/v1/organizations/:organizationId/ledgers/:ledgerId/holders/:holderId/aliases/:id/related-parties/:partyId",
        Obj(<<PathParam("organizationId", "string", TRUE), PathParam("ledgerId", "string", TRUE), PathParam("holderId", "string", TRUE), PathParam("id", "string", TRUE), PathParam("partyId", "string", TRUE)>>),
        None, None, None,
        "Delete a specific related party from an alias") >> ]

portfoliosSchema ==
  [ resource |-> "portfolios", component |-> "onboarding",
    description |-> "Collections of accounts grouped for organizational purposes (business units, departments, etc.)",
    actions |-> <<
      ActionDef("create", "POST",
        "/v1/organizations/:organizationId/ledgers/:ledgerId/portfolios",
        Obj(<<PathParam("organizationId", "string", TRUE), PathParam("ledgerId", "string", TRUE)>>),
        None, Obj("input of portfolios.create"), Obj("example of portfolios.create"),
        "Create a new portfolio"),
      ActionDef("get", "GET",
        "/v1/organizations/:organizationId/ledgers/:ledgerId/portfolios/:id",
        Obj(<<PathParam("organizationId", "string", TRUE), PathParam("ledgerId", "string", TRUE), PathParam("id", "string", TRUE)>>),
        None, None, None,
        "Get portfolio by ID"),
      ActionDef("list", "GET",
        "/v1/organizations/:organizationId/ledgers/:ledgerId/portfolios",
        Obj(<<PathParam("organizationId", "string", TRUE), PathParam("ledgerId", "string", TRUE)>>),
        Obj(<<QueryParam("limit", "number"), QueryParam("page", "number"), QueryParam("metadata", "object")>>), None, None,
        "List portfolios in a ledger"),
      ActionDef("update", "PATCH",
        "/v1/organizations/:organizationId/ledgers/:ledgerId/portfolios/:id",
        Obj(<<PathParam("organizationId", "string", TRUE), PathParam("ledgerId", "string", TRUE), PathParam("id", "string", TRUE)>>),
        None, Obj("input of portfolios.update"), None,
        "Update a portfolio"),
      ActionDef("delete", "DELETE",
        "/v1/organizations/:organizationId/ledgers/:ledgerId/portfolios/:id",
        Obj(<<PathParam("organizationId", "string", TRUE), PathParam("ledgerId", "string", TRUE), PathParam("id", "string", TRUE)>>),
        None, None, None,
        "Delete a portfolio"),
      ActionDef("count", "HEAD",
        "/v1/organizations/:organizationId/ledgers/:ledgerId/portfolios/metrics/count",
        Obj(<<PathParam("organizationId", "string", TRUE), PathParam("ledgerId", "string", TRUE)>>),
        None, None, None,
        "Count portfolios in a ledger") >> ]

segmentsSchema ==
  [ resource |-> "segments", component |-> "onboarding",
    description |-> "Logical divisions within a ledger (business areas, product lines, customer categories)",
    actions |-> <<
      ActionDef("create", "POST",
        "/v1/organizations/:organizationId/ledgers/:ledgerId/segments",
        Obj(<<PathParam("organizationId", "string", TRUE), PathParam("ledgerId", "string", TRUE)>>),
        None, Obj("input of segments.create"), Obj("example of segments.create"),
        "Create a new segment"),
      ActionDef("get", "GET",
        "/v1/organizations/:organizationId/ledgers/:ledgerId/segments/:id",
        Obj(<<PathParam("organizationId", "string", TRUE), PathParam("ledgerId", "string", TRUE), PathParam("id", "string", TRUE)>>),
        None, None, None,
        "Get segment by ID"),
      ActionDef("list", "GET",
        "/v1/organizations/:organizationId/ledgers/:ledgerId/segments",
        Obj(<<PathParam("organizationId", "string", TRUE), PathParam("ledgerId", "string", TRUE)>>),
        Obj(<<QueryParam("limit", "number"), QueryParam("page", "number"), QueryParam("metadata", "object")>>), None, None,
        "List segments in a ledger"),
      ActionDef("update", "PATCH",
        "/v1/organizations/:organizationId/ledgers/:ledgerId/segments/:id",
        Obj(<<PathParam("organizationId", "string", TRUE), PathParam("ledgerId", "string", TRUE), PathParam("id", "string", TRUE)>>),
        None, Obj("input of segments.update"), None,
        "Update a segment"),
      ActionDef("delete", "DELETE",
        "/v1/organizations/:organizationId/ledgers/:ledgerId/segments/:id",
        Obj(<<PathParam("organizationId", "string", TRUE), PathParam("ledgerId", "string", TRUE), PathParam("id", "string", TRUE)>>),
        None, None, None,
        "Delete a segment"),
      ActionDef("count", "HEAD",
        "/v1/organizations/:organizationId/ledgers/:ledgerId/segments/metrics/count",
        Obj(<<PathParam("organizationId", "string", TRUE), PathParam("ledgerId", "string", TRUE)>>),
        None, None, None,
        "Count segments in a ledger") >> ]

accountsSchema ==
  [ resource |-> "accounts", component |-> "onboarding",
    description |-> "Financial accounts within a ledger for tracking balances and transactions",
    actions |-> <<
      ActionDef("create", "POST",
        "/v1/organizations/:organizationId/ledgers/:ledgerId/accounts",
        Obj(<<PathParam("organizationId", "string", TRUE), PathParam("ledgerId", "string", TRUE)>>),
        None, Obj("input of accounts.create"), Obj("example of accounts.create"),
        "Create a new account"),
      ActionDef("get", "GET",
        "/v1/organizations/:organizationId/ledgers/:ledgerId/accounts/:id",
        Obj(<<PathParam("organizationId", "string", TRUE), PathParam("ledgerId", "string", TRUE), PathParam("id", "string", TRUE)>>),
        None, None, None,
        "Get account by ID"),
      ActionDef("getByAlias", "GET",
        "/v1/organizations/:organizationId/ledgers/:ledgerId/accounts/aliases/:alias",
        Obj(<<PathParam("organizationId", "string", TRUE), PathParam("ledgerId", "string", TRUE), PathParam("alias", "string", TRUE)>>),
        None, None, None,
        "Get account by alias"),
      ActionDef("getByExternalId", "GET",
        "/v1/organizations/:organizationId/ledgers/:ledgerId/accounts/external/:externalId",
        Obj(<<PathParam("organizationId", "string", TRUE), PathParam("ledgerId", "string", TRUE), PathParam("externalId", "string", TRUE)>>),
        None, None, None,
        "Get account by external ID"),
      ActionDef("list", "GET",
        "/v1/organizations/:organizationId/ledgers/:ledgerId/accounts",
        Obj(<<PathParam("organizationId", "string", TRUE), PathParam("ledgerId", "string", TRUE)>>),
        Obj(<<QueryParam("limit", "number"), QueryParam("page", "number"), QueryParam("metadata", "object")>>), None, None,
        "List accounts in a ledger"),
      ActionDef("update", "PATCH",
        "/v1/organizations/:organizationId/ledgers/:ledgerId/accounts/:id",
        Obj(<<PathParam("organizationId", "string", TRUE), PathParam("ledgerId", "string", TRUE), PathParam("id", "string", TRUE)>>),
        None, Obj("input of accounts.update"), None,
        "Update an account"),
      ActionDef("delete", "DELETE",
        "/v1/organizations/:organizationId/ledgers/:ledgerId/accounts/:id",
        Obj(<<PathParam("organizationId", "string", TRUE), PathParam("ledgerId", "string", TRUE), PathParam("id", "string", TRUE)>>),
        None, None, None,
        "Delete an account"),
      ActionDef("count", "HEAD",
        "/v1/organizations/:organizationId/ledgers/:ledgerId/accounts/metrics/count",
        Obj(<<PathParam("organizationId", "string", TRUE), PathParam("ledgerId", "string", TRUE)>>),
        None, None, None,
        "Count accounts in a ledger") >> ]

holdersSchema ==
  [ resource |-> "holders", component |-> "crm",
    description |-> "Customer/entity management - natural persons or legal persons with addresses, contacts, and documents",
    actions |-> <<
      ActionDef("create", "POST",
        "/v1/organizations/:organizationId/ledgers/:ledgerId/holders",
        Obj(<<PathParam("organizationId", "string", TRUE), PathParam("ledgerId", "string", TRUE)>>),
        None, Obj("input of holders.create"), Obj("example of holders.create"),
        "Create a new holder (customer/entity)"),
      ActionDef("get", "GET",
        "/v1/organizations/:organizationId/ledgers/:ledgerId/holders/:id",
        Obj(<<PathParam("organizationId", "string", TRUE), PathParam("ledgerId", "string", TRUE), PathParam("id", "string", TRUE)>>),
        None, None, None,
        "Get holder by ID"),
      ActionDef("list", "GET",
        "/v1/organizations/:organizationId/ledgers/:ledgerId/holders",
        Obj(<<PathParam("organizationId", "string", TRUE), PathParam("ledgerId", "string", TRUE)>>),
        Obj(<<QueryParam("limit", "number"), QueryParam("page", "number")>>), None, None,
        "List holders in a ledger"),
      ActionDef("update", "PATCH",
        "/v1/organizations/:organizationId/ledgers/:ledgerId/holders/:id",
        Obj(<<PathParam("organizationId", "string", TRUE), PathParam("ledgerId", "string", TRUE), PathParam("id", "string", TRUE)>>),
        None, Obj("input of holders.update"), None,
        "Update a holder"),
      ActionDef("delete", "DELETE",
        "/v1/organizations/:organizationId/ledgers/:ledgerId/holders/:id",
        Obj(<<PathParam("organizationId", "string", TRUE), PathParam("ledgerId", "string", TRUE), PathParam("id", "string", TRUE)>>),
        None, None, None,
        "Delete a holder") >> ]

accountTypesSchema ==
  [ resource |-> "account-types", component |-> "onboarding",
    description |-> "Custom account type taxonomies with name, description, and unique key value",
    actions |-> <<
      ActionDef("create", "POST",
        "/v1/organizations/:organizationId/ledgers/:ledgerId/account-types",
        Obj(<<PathParam("organizationId", "string", TRUE), PathParam("ledgerId", "string", TRUE)>>),
        None, Obj("input of account-types.create"), Obj("example of account-types.create"),
        "Create a new account type"),
      ActionDef("get", "GET",
        "/v1/organizations/:organizationId/ledgers/:ledgerId/account-types/:id",
        Obj(<<PathParam("organizationId", "string", TRUE), PathParam("ledgerId", "string", TRUE), PathParam("id", "string", TRUE)>>),
        None, None, None,
        "Get account type by ID"),
      ActionDef("list", "GET",
        "/v1/organizations/:organizationId/ledgers/:ledgerId/account-types",
        Obj(<<PathParam("organizationId", "string", TRUE), PathParam("ledgerId", "string", TRUE)>>),
        Obj(<<QueryParam("limit", "number"), QueryParam("page", "number")>>), None, None,
        "List account types in a ledger"),
      ActionDef("update", "PATCH",
        "/v1/organizations/:organizationId/ledgers/:ledgerId/account-types/:id",
        Obj(<<PathParam("organizationId", "string", TRUE), PathParam("ledgerId", "string", TRUE), PathParam("id", "string", TRUE)>>),
        None, Obj("input of account-types.update"), None,
        "Update an account type"),
      ActionDef("delete", "DELETE",
        "/v1/organizations/:organizationId/ledgers/:ledgerId/account-types/:id",
        Obj(<<PathParam("organizationId", "string", TRUE), PathParam("ledgerId", "string", TRUE), PathParam("id", "string", TRUE)>>),
        None, None, None,
        "Delete an account type") >> ]

transactionsSchema ==
  [ resource |-> "transactions", component |-> "transaction",
    description |-> "Financial transactions with double-entry accounting (source/destination operations)",
    actions |-> <<
      ActionDef("create", "POST",
        "/v1/organizations/:organizationId/ledgers/:ledgerId/transactions",
        Obj(<<PathParam("organizationId", "string", TRUE), PathParam("ledgerId", "string", TRUE)>>),
        None, Obj("input of transactions.create"), Obj("example of transactions.create"),
        "Create a transaction using JSON (full source+destination specification)"),
      ActionDef("createDSL", "POST",
        "/v1/organizations/:organizationId/ledgers/:ledgerId/transactions/dsl",
        Obj(<<PathParam("organizationId", "string", TRUE), PathParam("ledgerId", "string", TRUE)>>),
        None, Obj("input of transactions.createDSL"), None,
        "Create a transaction using DSL template with variable substitution"),
      ActionDef("createInflow", "POST",
        "/v1/organizations/:organizationId/ledgers/:ledgerId/transactions/inflow",
        Obj(<<PathParam("organizationId", "string", TRUE), PathParam("ledgerId", "string", TRUE)>>),
        None, Obj("input of transactions.createInflow"), Obj("example of transactions.createInflow"),
        "Create an inflow transaction (funds coming in from external, only specify destination)"),
      ActionDef("createOutflow", "POST",
        "/v1/organizations/:organizationId/ledgers/:ledgerId/transactions/outflow",
        Obj(<<PathParam("organizationId", "string", TRUE), PathParam("ledgerId", "string", TRUE)>>),
        None, Obj("input of transactions.createOutflow"), None,
        "Create an outflow transaction (funds going out to external, only specify source)"),
      ActionDef("createAnnotation", "POST",
        "/v1/organizations/:organizationId/ledgers/:ledgerId/transactions/annotation",
        Obj(<<PathParam("organizationId", "string", TRUE), PathParam("ledgerId", "string", TRUE)>>),
        None, Obj("input of transactions.createAnnotation"), None,
        "Create an annotation transaction (bookkeeping entry that does NOT affect balances)"),
      ActionDef("commit", "POST",
        "/v1/organizations/:organizationId/ledgers/:ledgerId/transactions/:id/commit",
        Obj(<<PathParam("organizationId", "string", TRUE), PathParam("ledgerId", "string", TRUE), PathParam("id", "string", TRUE)>>),
        None, None, None,
        "Commit a pending transaction (applies balance changes)"),
      ActionDef("cancel", "POST",
        "/v1/organizations/:organizationId/ledgers/:ledgerId/transactions/:id/cancel",
        Obj(<<PathParam("organizationId", "string", TRUE), PathParam("ledgerId", "string", TRUE), PathParam("id", "string", TRUE)>>),
        None, None, None,
        "Cancel a pending transaction (releases held balances)"),
      ActionDef("revert", "POST",
        "/v1/organizations/:organizationId/ledgers/:ledgerId/transactions/:id/revert",
        Obj(<<PathParam("organizationId", "string", TRUE), PathParam("ledgerId", "string", TRUE), PathParam("id", "string", TRUE)>>),
        None, None, None,
        "Revert a committed transaction (creates a reversal transaction)"),
      ActionDef("get", "GET",
        "/v1/organizations/:organizationId/ledgers/:ledgerId/transactions/:id",
        Obj(<<PathParam("organizationId", "string", TRUE), PathParam("ledgerId", "string", TRUE), PathParam("id", "string", TRUE)>>),
        None, None, None,
        "Get transaction by ID (includes operations)"),
      ActionDef("list", "GET",
        "/v1/organizations/:organizationId/ledgers/:ledgerId/transactions",
        Obj(<<PathParam("organizationId", "string", TRUE), PathParam("ledgerId", "string", TRUE)>>),
        Obj(<<QueryParam("limit", "number"), QueryParam("page", "number"), QueryParam("metadata", "object")>>), None, None,
        "List transactions in a ledger"),
      ActionDef("update", "PATCH",
        "/v1/organizations/:organizationId/ledgers/:ledgerId/transactions/:id",
        Obj(<<PathParam("organizationId", "string", TRUE), PathParam("ledgerId", "string", TRUE), PathParam("id", "string", TRUE)>>),
        None, Obj("input of transactions.update"), None,
        "Update a transaction (description and metadata only)") >> ]

operationsSchema ==
  [ resource |-> "operations", component |-> "transaction",
    description |-> "Individual debit/credit entries within a transaction affecting account balances",
    actions |-> <<
      ActionDef("getByAccount", "GET",
        "/v1/organizations/:organizationId/ledgers/:ledgerId/accounts/:accountId/operations",
        Obj(<<PathParam("organizationId", "string", TRUE), PathParam("ledgerId", "string", TRUE), PathParam("accountId", "string", TRUE)>>),
        Obj(<<QueryParam("limit", "number"), QueryParam("page", "number"), QueryParam("metadata", "object")>>), None, None,
        "List operations for a specific account"),
      ActionDef("get", "GET",
        "/v1/organizations/:organizationId/ledgers/:ledgerId/accounts/:accountId/operations/:id",
        Obj(<<PathParam("organizationId", "string", TRUE), PathParam("ledgerId", "string", TRUE), PathParam("accountId", "string", TRUE), PathParam("id", "string", TRUE)>>),
        None, None, None,
        "Get a specific operation"),
      ActionDef("update", "PATCH",
        "/v1/organizations/:organizationId/ledgers/:ledgerId/accounts/:accountId/operations/:id",
        Obj(<<PathParam("organizationId", "string", TRUE), PathParam("ledgerId", "string", TRUE), PathParam("accountId", "string", TRUE), PathParam("id", "string", TRUE)>>),
        None, Obj("input of operations.update"), None,
        "Update an operation (description and metadata only)") >> ]

balancesSchema ==
  [ resource |-> "balances", component |-> "transaction",
    description |-> "Account balances tracking available/onHold amounts per asset with multi-key support",
    actions |-> <<
      ActionDef("get", "GET",
        "/v1/organizations/:organizationId/ledgers/:ledgerId/accounts/:accountId/balances/:id",
        Obj(<<PathParam("organizationId", "string", TRUE), PathParam("ledgerId", "string", TRUE), PathParam("accountId", "string", TRUE), PathParam("id", "string", TRUE)>>),
        None, None, None,
        "Get balance by ID"),
      ActionDef("getByAccount", "GET",
        "/v1/organizations/:organizationId/ledgers/:ledgerId/accounts/:accountId/balances",
        Obj(<<PathParam("organizationId", "string", TRUE), PathParam("ledgerId", "string", TRUE), PathParam("accountId", "string", TRUE)>>),
        Obj(<<QueryParam("limit", "number"), QueryParam("page", "number")>>), None, None,
        "List balances for a specific account"),
      ActionDef("getByAlias", "GET",
        "/v1/organizations/:organizationId/ledgers/:ledgerId/balances/aliases/:alias",
        Obj(<<PathParam("organizationId", "string", TRUE), PathParam("ledgerId", "string", TRUE), PathParam("alias", "string", TRUE)>>),
        None, None, None,
        "Get balances by account alias"),
      ActionDef("getByExternalId", "GET",
        "/v1/organizations/:organizationId/ledgers/:ledgerId/balances/external/:externalId",
        Obj(<<PathParam("organizationId", "string", TRUE), PathParam("ledgerId", "string", TRUE), PathParam("externalId", "string", TRUE)>>),
        None, None, None,
        "Get balances by external ID"),
      ActionDef("list", "GET",
        "/v1/organizations/:organizationId/ledgers/:ledgerId/balances",
        Obj(<<PathParam("organizationId", "string", TRUE), PathParam("ledgerId", "string", TRUE)>>),
        Obj(<<QueryParam("limit", "number"), QueryParam("page", "number")>>), None, None,
        "List all balances in a ledger"),
      ActionDef("createAdditional", "POST",
        "/v1/organizations/:organizationId/ledgers/:ledgerId/accounts/:accountId/balances",
        Obj(<<PathParam("organizationId", "string", TRUE), PathParam("ledgerId", "string", TRUE), PathParam("accountId", "string", TRUE)>>),
        None, Obj("input of balances.createAdditional"), Obj("example of balances.createAdditional"),
        "Create an additional balance with a custom key (e.g. asset-freeze)"),
      ActionDef("update", "PATCH",
        "/v1/organizations/:organizationId/ledgers/:ledgerId/accounts/:accountId/balances/:id",
        Obj(<<PathParam("organizationId", "string", TRUE), PathParam("ledgerId", "string", TRUE), PathParam("accountId", "string", TRUE), PathParam("id", "string", TRUE)>>),
        None, Obj("input of balances.update"), None,
        "Update balance permissions"),
      ActionDef("delete", "DELETE",
        "/v1/organizations/:organizationId/ledgers/:ledgerId/accounts/:accountId/balances/:id",
        Obj(<<PathParam("organizationId", "string", TRUE), PathParam("ledgerId", "string", TRUE), PathParam("accountId", "string", TRUE), PathParam("id", "string", TRUE)>>),
        None, None, None,
        "Delete a balance") >> ]

assetRatesSchema ==
  [ resource |-> "asset-rates", component |-> "transaction",
    description |-> "Currency/asset conversion rates for cross-asset transactions",
    actions |-> <<
      ActionDef("createOrUpdate", "PUT",
        "/v1/organizations/:organizationId/ledgers/:ledgerId/asset-rates",
        Obj(<<PathParam("organizationId", "string", TRUE), PathParam("ledgerId", "string", TRUE)>>),
        None, Obj("input of asset-rates.createOrUpdate"), Obj("example of asset-rates.createOrUpdate"),
        "Create or update an asset rate (upsert)"),
      ActionDef("getByExternalId", "GET",
        "/v1/organizations/:organizationId/ledgers/:ledgerId/asset-rates/external/:externalId",
        Obj(<<PathParam("organizationId", "string", TRUE), PathParam("ledgerId", "string", TRUE), PathParam("externalId", "string", TRUE)>>),
        None, None, None,
        "Get asset rate by external ID"),
      ActionDef("getByAssetCode", "GET",
        "/v1/organizations/:organizationId/ledgers/:ledgerId/asset-rates/:assetCode",
        Obj(<<PathParam("organizationId", "string", TRUE), PathParam("ledgerId", "string", TRUE), PathParam("assetCode", "string", TRUE)>>),
        None, None, None,
        "Get asset rate by asset code") >> ]

operationRoutesSchema ==
  [ resource |-> "operation-routes", component |-> "transaction",
    description |-> "Rule-based routing for operations with account selection rules (alias or account_type matching)",
    actions |-> <<
      ActionDef("create", "POST",
        "/v1/organizations/:organizationId/ledgers/:ledgerId/operation-routes",
        Obj(<<PathParam("organizationId", "string", TRUE), PathParam("ledgerId", "string", TRUE)>>),
        None, Obj("input of operation-routes.create"), Obj("example of operation-routes.create"),
        "Create an operation route with account selection rules"),
      ActionDef("get", "GET",
        "/v1/organizations/:organizationId/ledgers/:ledgerId/operation-routes/:id",
        Obj(<<PathParam("organizationId", "string", TRUE), PathParam("ledgerId", "string", TRUE), PathParam("id", "string", TRUE)>>),
        None, None, None,
        "Get operation route by ID"),
      ActionDef("list", "GET",
        "/v1/organizations/:organizationId/ledgers/:ledgerId/operation-routes",
        Obj(<<PathParam("organizationId", "string", TRUE), PathParam("ledgerId", "string", TRUE)>>),
        Obj(<<QueryParam("limit", "number"), QueryParam("page", "number")>>), None, None,
        "List operation routes in a ledger"),
      ActionDef("update", "PATCH",
        "/v1/organizations/:organizationId/ledgers/:ledgerId/operation-routes/:id",
        Obj(<<PathParam("organizationId", "string", TRUE), PathParam("ledgerId", "string", TRUE), PathParam("id", "string", TRUE)>>),
        None, Obj("input of operation-routes.update"), None,
        "Update an operation route"),
      ActionDef("delete", "DELETE",
        "/v1/organizations/:organizationId/ledgers/:ledgerId/operation-routes/:id",
        Obj(<<PathParam("organizationId", "string", TRUE), PathParam("ledgerId", "string", TRUE), PathParam("id", "string", TRUE)>>),
        None, None, None,
        "Delete an operation route") >> ]

transactionRoutesSchema ==
  [ resource |-> "transaction-routes", component |-> "transaction",
    description |-> "Composite routing that combines multiple operation routes for transaction processing",
    actions |-> <<
      ActionDef("create", "POST",
        "/v1/organizations/:organizationId/ledgers/:ledgerId/transaction-routes",
        Obj(<<PathParam("organizationId", "string", TRUE), PathParam("ledgerId", "string", TRUE)>>),
        None, Obj("input of transaction-routes.create"), Obj("example of transaction-routes.create"),
        "Create a transaction route from existing operation routes"),
      ActionDef("get", "GET",
        "/v1/organizations/:organizationId/ledgers/:ledgerId/transaction-routes/:id",
        Obj(<<PathParam("organizationId", "string", TRUE), PathParam("ledgerId", "string", TRUE), PathParam("id", "string", TRUE)>>),
        None, None, None,
        "Get transaction route by ID"),
      ActionDef("list", "GET",
        "/v1/organizations/:organizationId/ledgers/:ledgerId/transaction-routes",
        Obj(<<PathParam("organizationId", "string", TRUE), PathParam("ledgerId", "string", TRUE)>>),
        Obj(<<QueryParam("limit", "number"), QueryParam("page", "number")>>), None, None,
        "List transaction routes in a ledger"),
      ActionDef("update", "PATCH",
        "/v1/organizations/:organizationId/ledgers/:ledgerId/transaction-routes/:id",
        Obj(<<PathParam("organizationId", "string", TRUE), PathParam("ledgerId", "string", TRUE), PathParam("id", "string", TRUE)>>),
        None, Obj("input of transaction-routes.update"), None,
        "Update a transaction route"),
      ActionDef("delete", "DELETE",
        "/v1/organizations/:organizationId/ledgers/:ledgerId/transaction-routes/:id",
        Obj(<<PathParam("organizationId", "string", TRUE), PathParam("ledgerId", "string", TRUE), PathParam("id", "string", TRUE)>>),
        None, None, None,
        "Delete a transaction route") >> ]

metadataIndexesSchema ==
  [ resource |-> "metadata-indexes", component |-> "ledger",
    description |-> "MongoDB indexes on custom metadata fields for optimized querying (supports transaction, operation, operation_route, transaction_route entities)",
    actions |-> <<
      ActionDef("create", "POST",
        "/v1/organizations/:organizationId/ledgers/:ledgerId/metadata-indexes/:entityName",
        Obj(<<PathParam("organizationId", "string", TRUE), PathParam("ledgerId", "string", TRUE), PathParam("entityName", "string", TRUE)>>),
        None, Obj("input of metadata-indexes.create"), Obj("example of metadata-indexes.create"),
        "Create a metadata index on an entity collection"),
      ActionDef("list", "GET",
        "/v1/organizations/:organizationId/ledgers/:ledgerId/metadata-indexes",
        Obj(<<PathParam("organizationId", "string", TRUE), PathParam("ledgerId", "string", TRUE)>>),
        Obj(<<QueryParam("limit", "number"), QueryParam("page", "number")>>), None, None,
        "List all metadata indexes in a ledger (includes usage statistics)"),
      ActionDef("delete", "DELETE",
        "/v1/organizations/:organizationId/ledgers/:ledgerId/metadata-indexes/:entityName/:metadataKey",
        Obj(<<PathParam("organizationId", "string", TRUE), PathParam("ledgerId", "string", TRUE), PathParam("entityName", "string", TRUE), PathParam("metadataKey", "string", TRUE)>>),
        None, None, None,
        "Delete a metadata index") >> ]

\* schemas/index.js: the array the registry is built from, in import order.
allSchemas ==
  << organizationsSchema, ledgersSchema, assetsSchema, portfoliosSchema,
     segmentsSchema, accountsSchema, accountTypesSchema, transactionsSchema,
     operationsSchema, balancesSchema, assetRatesSchema,
     operationRoutesSchema, transactionRoutesSchema, metadataIndexesSchema,
     holdersSchema, aliasesSchema >>

----------------------------------------------------------------------------
(* Resolved configuration, supplied by the configuration loader *)

MidazApi(onb, txn, crm, led, t, tok) ==
  [ onboardingUrl |-> onb, transactionUrl |-> txn, crmUrl |-> crm,
    ledgerUrl |-> led, timeout |-> t, authToken |-> tok ]

\* `config.midazApi || {}`: every property of {} reads as undefined
\* (timeout 0 stands for an unset timeout; both are falsy).
EmptyMidazApi ==
  MidazApi(undefined, undefined, undefined, undefined, 0, undefined)

\* Configurations the loader may resolve to: every backend configured with
\* a token and a timeout; only the onboarding URL configured.
Configs ==
  { [ midazApi |-> Obj(MidazApi("http://onboarding:3000",
                                "http://transaction:3001",
                                "http://crm:4003", "http://ledger:3002",
                                10000, "secret-token")) ],
    [ midazApi |-> Obj(MidazApi("http://localhost:3000", undefined,
                                undefined, undefined, 0, undefined)) ] }

----------------------------------------------------------------------------
(* State *)

VARIABLES
  inv,            \* per tool invocation: position, arguments, result
  configCache,    \* client.js `configCache`: None or Obj(config)
  configPromise,  \* the value config.js's configPromise resolves to
  lastResolve,    \* the latest resolveAction call of a caller and the
                  \* descriptor it got back (which the caller keeps)
  registryWrites, \* writes made to registry objects since module load:
                  \* <<resource, action, key>> for `required = false`
  cursors,        \* util/cursor-security.js: CURSOR_SECRET, the cursor
                  \* issued last and the cursor verified last
  pathCheck,      \* config.js: process.cwd() and the latest call of
                  \* validateConfigPath
  monitor,        \* util/error-monitoring.ts: the ErrorMonitor instance
  pool,           \* util/http-pool.ts: pendingRequests, the fetches made
                  \* and what each caller of fetchWithPool got
  legacy,         \* tools/balance.js, tools/ledger.js: config.useStubs and
                  \* the latest call of a legacy financial tool
  cache,          \* a Cache instance and its getOrCompute calls
  logFiles,       \* util/error-monitoring.ts: the files of one log name
  env             \* util/secret-manager.js: process.env, secrets.json
                  \* and the latest call of initializeSecrets

\* The state of the utility modules, which no tool invocation touches.
moreVars == <<pool, legacy, cache, logFiles, env>>

utilVars == <<cursors, pathCheck, monitor, moreVars>>

\* The state of midaz-execute and of the client module.
execVars ==
  <<inv, configCache, configPromise, lastResolve, registryWrites>>

vars ==
  <<inv, configCache, configPromise, lastResolve, registryWrites, cursors,
    pathCheck, monitor, pool, legacy, cache, logFiles, env>>

\* The modules of this group have not been used yet.
RestIdle ==
  /\ pool = None
  /\ legacy = None
  /\ cache = None
  /\ logFiles = None
  /\ env = None

\* Tool invocations that may be in progress.
Invs == {"a", "b"}

----------------------------------------------------------------------------
(* schemas/index.js *)

\* A registry object as it is now: as built at module load, with the writes
\* made since applied.
Current(schema) ==
  IF registryWrites = {} THEN schema
  ELSE LET Written(def) ==
             IF ~IsSet(def.pathParams) THEN def
             ELSE [def EXCEPT !.pathParams =
                    Obj([ j \in 1..Len(def.pathParams[1]) |->
                            IF <<schema.resource, def.name,
                                 def.pathParams[1][j].name>> \in registryWrites
                            THEN [def.pathParams[1][j] EXCEPT
                                    !.required = FALSE]
                            ELSE def.pathParams[1][j] ])]
       IN  [schema EXCEPT !.actions =
             [ n \in 1..Len(schema.actions) |-> Written(schema.actions[n]) ]]

\* The Map filled at module load by schemaMap.set(schema.resource, schema)
\* for each schema of allSchemas: the schema stored under a key, None for a
\* key the Map does not hold.
schemaMap(resource) ==
  CASE resource = "organizations" -> Obj(organizationsSchema)
    [] resource = "ledgers" -> Obj(ledgersSchema)
    [] resource = "assets" -> Obj(assetsSchema)
    [] resource = "portfolios" -> Obj(portfoliosSchema)
    [] resource = "segments" -> Obj(segmentsSchema)
    [] resource = "accounts" -> Obj(accountsSchema)
    [] resource = "account-types" -> Obj(accountTypesSchema)
    [] resource = "transactions" -> Obj(transactionsSchema)
    [] resource = "operations" -> Obj(operationsSchema)
    [] resource = "balances" -> Obj(balancesSchema)
    [] resource = "asset-rates" -> Obj(assetRatesSchema)
    [] resource = "operation-routes" -> Obj(operationRoutesSchema)
    [] resource = "transaction-routes" -> Obj(transactionRoutesSchema)
    [] resource = "metadata-indexes" -> Obj(metadataIndexesSchema)
    [] resource = "holders" -> Obj(holdersSchema)
    [] resource = "aliases" -> Obj(aliasesSchema)
    [] OTHER -> None

\* schemaMap.get(resource) || null
getSchema(resource) ==
  LET OrNull(found) ==
        IF IsSet(found) THEN Obj(Current(found[1])) ELSE None
  IN  OrNull(schemaMap(resource))

\* The array elements are the very objects the Map holds.
getAllSchemas ==
  [ i \in DOMAIN allSchemas |-> Current(allSchemas[i]) ]

----------------------------------------------------------------------------
(* router.js *)

\* `schema.actions[action]` on a plain object: an own property, else a
\* property inherited from Object.prototype (a function or object, truthy,
\* none of whose schema fields is defined), else undefined.
ActionLookup(schema, action) ==
  IF HasOwn(schema.actions, action) THEN "own"
  ELSE IF action \in ObjectPrototypeKeys THEN "inherited"
  ELSE "undefined"

\* The descriptor built from an own action definition.
Descriptor(resource, action, schema, actionDef) ==
  [ resource |-> resource, action |-> action,
    component |-> schema.component,
    method |-> actionDef.method,
    pathTemplate |-> actionDef.path,
    pathParams |-> IF IsSet(actionDef.pathParams)
                   THEN actionDef.pathParams[1] ELSE <<>>,
    queryParams |-> IF IsSet(actionDef.queryParams)
                    THEN actionDef.queryParams[1] ELSE <<>>,
    input |-> actionDef.input,
    description |-> actionDef.description,
    example |-> actionDef.example ]

\* The descriptor built from an inherited property: every field read from
\* it is undefined, and `undefined || {}` is {}.
InheritedDescriptor(resource, action, schema) ==
  [ resource |-> resource, action |-> action,
    component |-> schema.component,
    method |-> undefined,
    pathTemplate |-> undefined,
    pathParams |-> <<>>,
    queryParams |-> <<>>,
    input |-> None,
    description |-> undefined,
    example |-> None ]

resolveAction_dropParams(resource, action) ==
  LET Resolve(schema) ==
        IF ~IsSet(schema) THEN [ error |-> "Unknown resource" ]
        ELSE IF ActionLookup(schema[1], action) # "own"
        THEN [ error |-> "Unknown action" ]
        ELSE [ Descriptor(resource, action, schema[1],
                          Own(schema[1].actions, action))
                 EXCEPT !.pathParams = <<>> ]
  IN  Resolve(getSchema(resource))

resolveAction_throws(resource, action) ==
  LET Resolve(schema) ==
        IF ~IsSet(schema)
        THEN [ threw |-> TRUE, name |-> "TypeError",
               message |-> "Cannot read properties of null (reading 'actions')" ]
        ELSE IF ActionLookup(schema[1], action) = "undefined"
        THEN [ error |-> "Unknown action \"" \o action
                           \o "\" for resource \"" \o resource
                           \o "\". Available actions: "
                           \o join(keys(schema[1].actions), ", ") ]
        ELSE IF ActionLookup(schema[1], action) = "inherited"
        THEN InheritedDescriptor(resource, action, schema[1])
        ELSE Descriptor(resource, action, schema[1],
                        Own(schema[1].actions, action))
  IN  Resolve(getSchema(resource))

resolveAction(resource, action) ==
  LET Resolve(schema) ==
        IF ~IsSet(schema)
        THEN [ error |-> "Unknown resource \"" \o resource
                 \o "\". Use midaz-discover to list available resources." ]
        ELSE IF ActionLookup(schema[1], action) = "undefined"
        THEN [ error |-> "Unknown action \"" \o action
                           \o "\" for resource \"" \o resource
                           \o "\". Available actions: "
                           \o join(keys(schema[1].actions), ", ") ]
        ELSE IF ActionLookup(schema[1], action) = "inherited"
        THEN InheritedDescriptor(resource, action, schema[1])
        ELSE Descriptor(resource, action, schema[1],
                        Own(schema[1].actions, action))
  IN  Resolve(getSchema(resource))

IsError(resolved) == "error" \in DOMAIN resolved

\* `pathParams[paramName]` is truthy: an own non-empty string, or a property
\* inherited from Object.prototype.
SuppliedTruthy(pathParams, paramName) ==
  IF HasOwn(pathParams, paramName)
  THEN Own(pathParams, paramName).value # ""
  ELSE paramName \in ObjectPrototypeKeys

\* routeAndExecute's validation loop: the required names with no truthy
\* value, in Object.entries order.
missingParams(resolved, pathParams) ==
  LET Missing(paramDef) ==
        paramDef.required /\ ~SuppliedTruthy(pathParams, paramDef.name)
  IN  keys(SelectSeq(resolved.pathParams, Missing))

getEndpointCount ==
  LET all == getAllSchemas
      Sum[i \in 0..Len(all)] ==
        IF i = 0 THEN 0 ELSE Sum[i - 1] + Len(all[i].actions)
  IN  Sum[Len(all)]

----------------------------------------------------------------------------
(* client.js: request builder *)

\* `urlMap[component] || midazApi.onboardingUrl`; component names that are
\* properties of Object.prototype read as a truthy non-string.
\* urlMap is a plain object: a component named like a property every
\* object inherits reads that property, a truthy value that is no URL.
getComponentUrl(midazApi, component) ==
  LET mapped == CASE component = "onboarding" -> midazApi.onboardingUrl
                  [] component = "transaction" -> midazApi.transactionUrl
                  [] component = "crm" -> midazApi.crmUrl
                  [] component = "ledger" -> midazApi.ledgerUrl
                  [] component \in ObjectPrototypeKeys ->
                       "[inherited " \o component \o "]"
                  [] OTHER -> undefined
  IN  IF Truthy(mapped) THEN mapped ELSE midazApi.onboardingUrl

\* The loop of buildUrl over Object.entries(pathParams), entries 1..n done.
RECURSIVE SubstituteParams(_, _, _)
SubstituteParams(resolvedPath, pathParams, n) ==
  IF n = 0 THEN resolvedPath
  ELSE replace(SubstituteParams(resolvedPath, pathParams, n - 1),
               ":" \o pathParams[n].name,
               encodeURIComponent(pathParams[n].value))

\* buildUrl calls undefined.replace(...) when the template is undefined and
\* there is an entry to substitute: a TypeError.
buildUrlThrows(pathTemplate, pathParams) ==
  pathTemplate = undefined /\ Len(pathParams) > 0

buildUrl(baseUrl, pathTemplate, pathParams) ==
  ToText(baseUrl)
    \o ToText(SubstituteParams(pathTemplate, pathParams, Len(pathParams)))

\* A query value: undefined, null, an object (text: its JSON.stringify) or a
\* scalar (text: its String()).
QueryValue(n, k, t) == [name |-> n, kind |-> k, text |-> t]

buildQueryString(queryParams) ==
  LET Kept(e) == e.kind \notin {"undefined", "null"}
      kept == SelectSeq(queryParams, Kept)
      pairs == [ i \in 1..Len(kept) |->
                   formUrlEncode(kept[i].name) \o "="
                     \o formUrlEncode(kept[i].text) ]
      qs == join(pairs, "&")
  IN  IF Len(queryParams) = 0 THEN ""
      ELSE IF qs # "" THEN "?" \o qs ELSE ""

----------------------------------------------------------------------------
(* Errors and results *)

Digits == "0123456789"

\* `${n}` for a non-negative integer.
RECURSIVE NumberToText(_)
NumberToText(n) ==
  IF n < 10 THEN SubSeq(Digits, n + 1, n + 1)
  ELSE NumberToText(n \div 10) \o SubSeq(Digits, (n % 10) + 1, (n % 10) + 1)

\* A response body as the executor holds it: the parsed JSON value (text: its
\* JSON text) or the raw text.
Body(isJson, t) == [json |-> isJson, text |-> t]

\* JSON.stringify of such a body (the modelled texts need no escaping).
JSONstringify(body) ==
  IF body.json THEN body.text ELSE "\"" \o body.text \o "\""

\* A thrown Error object; status 0 stands for "no status property".
Thrown(n, m) ==
  [ name |-> n, message |-> m, status |-> 0, statusText |-> "",
    body |-> Body(FALSE, ""), url |-> "" ]

\* mcp-helpers createErrorResponse(code, message, detail?)
createErrorResponse(code, message, detail) ==
  [ ok |-> FALSE, code |-> code, message |-> message, detail |-> detail ]

\* mcp-helpers createToolResponse(result)
createToolResponse(payload) == [ ok |-> TRUE, payload |-> payload ]

----------------------------------------------------------------------------
(* router.js: routeAndExecute up to the call of executeRequest *)

Throws(err) == [ threw |-> TRUE, err |-> err ]

Calls(c) == [ threw |-> FALSE, call |-> c ]

\* executeRequest(resolved.component, resolved.method, ...) as called.
RequestCall(resolved, pathParams, queryParams, body) ==
  Calls([ component |-> resolved.component,
          method |-> resolved.method,
          pathTemplate |-> resolved.pathTemplate,
          pathParams |-> pathParams,
          queryParams |-> queryParams,
          body |-> body ])

routeAndExecute_noValidation(resource, action, pathParams, queryParams, body) ==
  LET Route(resolved) ==
        IF IsError(resolved) THEN Throws(Thrown("Error", resolved.error))
        ELSE RequestCall(resolved, pathParams, queryParams, body)
  IN  Route(resolveAction(resource, action))

routeAndExecute(resource, action, pathParams, queryParams, body) ==
  LET Route(resolved) ==
        IF IsError(resolved) THEN Throws(Thrown("Error", resolved.error))
        ELSE IF Len(missingParams(resolved, pathParams)) > 0
        THEN Throws(Thrown("Error",
               "Missing required path parameters: "
                 \o join(missingParams(resolved, pathParams), ", ")))
        ELSE RequestCall(resolved, pathParams, queryParams, body)
  IN  Route(resolveAction(resource, action))

----------------------------------------------------------------------------
(* client.js: executeRequest *)

prepareRequest_noDeadline(config, call) ==
  LET midazApi == IF IsSet(config.midazApi) THEN config.midazApi[1]
                  ELSE EmptyMidazApi
      baseUrl == getComponentUrl(midazApi, call.component)
  IN  IF buildUrlThrows(call.pathTemplate, call.pathParams)
      THEN Throws(Thrown("TypeError",
             "Cannot read properties of undefined (reading 'replace')"))
      ELSE IF call.method = undefined
      THEN Throws(Thrown("TypeError",
             "Cannot read properties of undefined (reading 'toUpperCase')"))
      ELSE Calls([ method |-> toUpperCase(call.method),
                   url |-> buildUrl(baseUrl, call.pathTemplate, call.pathParams)
                             \o buildQueryString(call.queryParams),
                   baseUrl |-> baseUrl,
                   timeout |-> 0,
                   authorization |->
                     IF Truthy(midazApi.authToken)
                     THEN "Bearer " \o midazApi.authToken ELSE undefined,
                   body |-> IF IsSet(call.body)
                               /\ toUpperCase(call.method)
                                    \notin {"GET", "HEAD", "DELETE"}
                            THEN call.body ELSE None ])

\* From the resolved configuration to the fetch call: the TypeError thrown
\* on the way, or the request handed to fetch.
prepareRequest(config, call) ==
  LET midazApi == IF IsSet(config.midazApi) THEN config.midazApi[1]
                  ELSE EmptyMidazApi
      baseUrl == getComponentUrl(midazApi, call.component)
  IN  IF buildUrlThrows(call.pathTemplate, call.pathParams)
      THEN Throws(Thrown("TypeError",
             "Cannot read properties of undefined (reading 'replace')"))
      ELSE IF call.method = undefined
      THEN Throws(Thrown("TypeError",
             "Cannot read properties of undefined (reading 'toUpperCase')"))
      ELSE Calls([ method |-> toUpperCase(call.method),
                   url |-> buildUrl(baseUrl, call.pathTemplate, call.pathParams)
                             \o buildQueryString(call.queryParams),
                   baseUrl |-> baseUrl,
                   timeout |-> IF midazApi.timeout # 0 THEN midazApi.timeout
                               ELSE 30000,
                   authorization |->
                     IF Truthy(midazApi.authToken)
                     THEN "Bearer " \o midazApi.authToken ELSE undefined,
                   body |-> IF IsSet(call.body)
                               /\ toUpperCase(call.method)
                                    \notin {"GET", "HEAD", "DELETE"}
                            THEN call.body ELSE None ])

responseOk(response) == response.status >= 200 /\ response.status <= 299

Returns(payload) == [ threw |-> FALSE, value |-> payload ]

\* What executeRequest does with the response before it reads a body: the
\* payload it returns at once, or None when it goes on to read the body.
interpretHeaders(request, response) ==
  IF request.method = "HEAD"
  THEN Obj([ kind |-> "head", status |-> response.status,
             count |-> response.count ])
  ELSE IF request.method = "DELETE" /\ response.status = 204
  THEN Obj([ kind |-> "deleted", status |-> 204,
             message |-> "Successfully deleted" ])
  ELSE None

\* After the body is read: response.json() may throw; a non-ok response
\* throws the structured failure; otherwise the body is returned.
interpretBody(request, response) ==
  LET isJson == includes(response.contentType, "application/json")
      responseBody == Body(isJson, response.bodyText)
  IN  IF isJson /\ ~response.jsonValid
      THEN Throws(Thrown("SyntaxError", "Unexpected end of JSON input"))
      ELSE IF ~responseOk(response)
      THEN Throws([ name |-> "Error",
                    message |-> "Midaz API error: "
                                  \o NumberToText(response.status) \o " "
                                  \o response.statusText,
                    status |-> response.status,
                    statusText |-> response.statusText,
                    body |-> responseBody,
                    url |-> request.url ])
      ELSE Returns([ kind |-> "body", body |-> responseBody ])

----------------------------------------------------------------------------
(* tools/midaz-execute: handleExecute *)

\* The catch block: classification of a thrown failure.
handleExecuteCatch(err) ==
  LET errorDetail == Obj([ status |-> err.status,
                           statusText |-> err.statusText,
                           url |-> err.url, body |-> err.body ])
  IN  IF err.status # 0
      THEN IF err.status = 400
           THEN createErrorResponse("INVALID_PARAMS",
                  "Bad request: " \o JSONstringify(err.body), errorDetail)
           ELSE IF err.status = 401 \/ err.status = 403
           THEN createErrorResponse("RESOURCE_ACCESS_DENIED",
                  "Authentication/authorization error ("
                    \o NumberToText(err.status)
                    \o "). Check MIDAZ_AUTH_TOKEN configuration.",
                  errorDetail)
           ELSE IF err.status = 404
           THEN createErrorResponse("RESOURCE_NOT_FOUND",
                  "Resource not found: " \o err.url, errorDetail)
           ELSE IF err.status = 409
           THEN createErrorResponse("BACKEND_ERROR",
                  "Conflict: " \o JSONstringify(err.body), errorDetail)
           ELSE IF err.status >= 500
           THEN createErrorResponse("BACKEND_ERROR",
                  "Midaz server error (" \o NumberToText(err.status)
                    \o "): " \o JSONstringify(err.body), errorDetail)
           ELSE createErrorResponse("BACKEND_ERROR",
                  "API error (" \o NumberToText(err.status) \o "): "
                    \o err.message, errorDetail)
      ELSE IF err.name = "TimeoutError" \/ includes(err.message, "timeout")
      THEN createErrorResponse("BACKEND_ERROR",
             "Request timed out. Check if the Midaz service is running and MIDAZ_*_URL is configured correctly.",
             None)
      ELSE IF includes(err.message, "fetch failed")
                \/ includes(err.message, "ECONNREFUSED")
      THEN createErrorResponse("RESOURCE_UNAVAILABLE",
             "Cannot connect to Midaz API. Ensure the service is running and environment variables MIDAZ_ONBOARDING_URL, MIDAZ_TRANSACTION_URL, MIDAZ_CRM_URL, MIDAZ_LEDGER_URL are set correctly.",
             None)
      ELSE createErrorResponse("INTERNAL_ERROR", err.message, None)

\* Tool arguments as the input schema admits them: strings for resource and
\* action; pathParams, queryParams and body None or Obj(...).
Args(r, a, pp, qp, b) ==
  [ resource |-> r, action |-> a, pathParams |-> pp, queryParams |-> qp,
    body |-> b ]

\* `x || {}`
OrEmpty(o) == IF IsSet(o) THEN o[1] ELSE <<>>

\* handleExecute from its entry to the first suspension: the response it
\* returns at once (Returns), or the executeRequest call it awaits (Calls).
handleExecute(args) ==
  IF ~Truthy(args.resource) \/ ~Truthy(args.action)
  THEN Returns(createErrorResponse("INVALID_PARAMS",
         "Both resource and action are required. Use midaz-discover first to find available resources and actions.",
         None))
  ELSE LET Settle(routed) ==
             IF routed.threw THEN Returns(handleExecuteCatch(routed.err))
             ELSE routed
       IN  Settle(routeAndExecute(args.resource, args.action,
                                  OrEmpty(args.pathParams),
                                  OrEmpty(args.queryParams), args.body))
----------------------------------------------------------------------------
(* schemas/index.js: queries over the registry *)

\* One character of String.prototype.toLowerCase on ASCII text.
LowerChar(c) ==
  IF includes(UpperCase, c)
  THEN SubSeq(LowerCase, indexOf(UpperCase, c), indexOf(UpperCase, c))
  ELSE c

\* `s.toLowerCase().includes(q.toLowerCase())`, character by character
\* (lowering ASCII text keeps its length).
includesLowerCase(s, q) ==
  \E i \in 1..(Len(s) - Len(q) + 1) :
    \A k \in 1..Len(q) :
      LowerChar(SubSeq(s, i + k - 1, i + k - 1)) = LowerChar(SubSeq(q, k, k))

getSchemasByComponent(component) ==
  LET OfComponent(s) == s.component = component
  IN  SelectSeq(getAllSchemas, OfComponent)

findSchemas(query) ==
  LET Matches(s) ==
        \/ includesLowerCase(s.resource, query)
        \/ includesLowerCase(s.description, query)
        \/ includesLowerCase(s.component, query)
        \/ \E n \in 1..Len(s.actions) :
             includesLowerCase(s.actions[n].name, query)
  IN  SelectSeq(getAllSchemas, Matches)

\* One element of listResources().
ResourceSummary(s) ==
  [ resource |-> s.resource, component |-> s.component,
    description |-> s.description, actions |-> keys(s.actions) ]

listResources ==
  LET Summaries(all) == [ i \in 1..Len(all) |-> ResourceSummary(all[i]) ]
  IN  Summaries(getAllSchemas)

----------------------------------------------------------------------------
(* tools/midaz-discover: handleDiscover *)

\* Tool arguments as the input schema admits them: intent; resource, action,
\* query and component each a string or undefined.
DiscoverArgsOf(i, r, a, q, c) ==
  [ intent |-> i, resource |-> r, action |-> a, query |-> q, component |-> c ]

\* The list-resources payload.
ListedResources(resources, totalEndpoints) ==
  LET Listing(r) == [ resource |-> r.resource, actions |-> r.actions,
                      description |-> r.description ]
      Of(component) ==
        LET In(r) == r.component = component
            found == SelectSeq(resources, In)
        IN  [ i \in 1..Len(found) |-> Listing(found[i]) ]
  IN  [ totalResources |-> Len(resources),
        totalEndpoints |-> totalEndpoints,
        components |-> [ onboarding |-> Of("onboarding"),
                         transaction |-> Of("transaction"),
                         crm |-> Of("crm"),
                         ledger |-> Of("ledger") ],
        hint |-> "Use intent=\"describe-resource\" with a resource name to see its actions, or intent=\"describe-action\" with resource+action for the full input schema." ]

\* The describe-resource answer for getSchema's result.
DescribedResource(resource, schema) ==
  LET Summary(actionDef) ==
        [ name |-> actionDef.name,
          method |-> actionDef.method,
          path |-> actionDef.path,
          description |-> actionDef.description,
          hasInput |-> IsSet(actionDef.input),
          hasPathParams |-> IsSet(actionDef.pathParams)
                              /\ Len(actionDef.pathParams[1]) > 0,
          hasQueryParams |-> IsSet(actionDef.queryParams)
                               /\ Len(actionDef.queryParams[1]) > 0 ]
      DidYouMean(suggestions) ==
        IF Len(suggestions) > 0
        THEN " Did you mean: "
               \o join([ i \in 1..Len(suggestions) |->
                           suggestions[i].resource ], ", ") \o "?"
        ELSE ""
  IN  IF ~IsSet(schema)
      THEN createErrorResponse("RESOURCE_NOT_FOUND",
             "Resource \"" \o resource \o "\" not found."
               \o DidYouMean(findSchemas(resource)), None)
      ELSE createToolResponse(
             [ resource |-> schema[1].resource,
               component |-> schema[1].component,
               description |-> schema[1].description,
               actions |-> [ n \in 1..Len(schema[1].actions) |->
                               Summary(schema[1].actions[n]) ],
               hint |-> "Use intent=\"describe-action\" with resource and action to get the full input schema for a specific action." ])

\* The describe-action answer for resolveAction's result.
DescribedAction(resource, action, resolved) ==
  IF IsError(resolved)
  THEN createErrorResponse("RESOURCE_NOT_FOUND", resolved.error, None)
  ELSE createToolResponse(
         [ resource |-> resource,
           action |-> action,
           component |-> resolved.component,
           method |-> resolved.method,
           path |-> resolved.pathTemplate,
           description |-> resolved.description,
           pathParams |-> IF Len(resolved.pathParams) > 0
                          THEN Obj(resolved.pathParams) ELSE None,
           queryParams |-> IF Len(resolved.queryParams) > 0
                           THEN Obj(resolved.queryParams) ELSE None,
           input |-> resolved.input,
           example |-> resolved.example,
           hint |-> "Use midaz-execute with this resource, action, and the required parameters to call the API." ])

\* The search answer for findSchemas' result.
Searched(query, results) ==
  IF Len(results) = 0
  THEN createToolResponse(
         [ results |-> <<>>,
           message |-> "No resources found matching \"" \o query \o "\"." ])
  ELSE createToolResponse(
         [ query |-> query,
           results |-> [ i \in 1..Len(results) |->
                           ResourceSummary(results[i]) ] ])

\* The list-by-component answer for getSchemasByComponent's result.
ListedComponent(component, schemas) ==
  createToolResponse(
    [ component |-> component,
      resources |-> [ i \in 1..Len(schemas) |->
                        [ resource |-> schemas[i].resource,
                          description |-> schemas[i].description,
                          actions |-> keys(schemas[i].actions) ] ] ])

handleDiscover(args) ==
  CASE args.intent = "list-resources" ->
         createToolResponse(ListedResources(listResources, getEndpointCount))
    [] args.intent = "describe-resource" ->
         IF ~Truthy(args.resource)
         THEN createErrorResponse("INVALID_PARAMS",
                "resource parameter is required for describe-resource intent",
                None)
         ELSE DescribedResource(args.resource, getSchema(args.resource))
    [] args.intent = "describe-action" ->
         IF ~Truthy(args.resource) \/ ~Truthy(args.action)
         THEN createErrorResponse("INVALID_PARAMS",
                "Both resource and action parameters are required for describe-action intent",
                None)
         ELSE DescribedAction(args.resource, args.action,
                              resolveAction(args.resource, args.action))
    [] args.intent = "search" ->
         IF ~Truthy(args.query)
         THEN createErrorResponse("INVALID_PARAMS",
                "query parameter is required for search intent", None)
         ELSE Searched(args.query, findSchemas(args.query))
    [] args.intent = "list-by-component" ->
         IF ~Truthy(args.component)
         THEN createErrorResponse("INVALID_PARAMS",
                "component parameter is required for list-by-component intent",
                None)
         ELSE ListedComponent(args.component,
                              getSchemasByComponent(args.component))
    [] OTHER ->
         createErrorResponse("INVALID_PARAMS",
           "Unknown intent: " \o ToText(args.intent), None)

-----------------------------------------------------------------------------
(* util/cursor-security.js *)

\* Printable ASCII in code order: the character with code 32 comes first.
\* (Code 96, the grave accent, cannot be written in a string here; a tab
\* holds its place.)
Ascii ==
  " !\"#$%&'()*+,-./0123456789:;<=>?@ABCDEFGHIJKLMNOPQRSTUVWXYZ[\\]^_\tabcdefghijklmnopqrstuvwxyz{|}~"

\* The UTF-8 byte of a printable ASCII character.
charCode(c) == 31 + (CHOOSE n \in 1..Len(Ascii) : SubSeq(Ascii, n, n) = c)

\* Buffer.from(text): the bytes of an ASCII text.
bytesOf(text) == [n \in 1..Len(text) |-> charCode(SubSeq(text, n, n))]

\* The texts f[lo], ..., f[hi] put together.
RECURSIVE concat(_, _, _)
concat(f, lo, hi) ==
  IF lo > hi THEN ""
  ELSE IF lo = hi THEN f[lo]
  ELSE concat(f, lo, (lo + hi) \div 2) \o concat(f, ((lo + hi) \div 2) + 1, hi)

\* buffer.toString('utf8'); a byte that is no printable ASCII character
\* shows as "?".
textOf(bytes) ==
  concat([n \in 1..Len(bytes) |->
            IF bytes[n] >= 32 /\ bytes[n] <= 126
            THEN SubSeq(Ascii, bytes[n] - 31, bytes[n] - 31) ELSE "?"],
         1, Len(bytes))

Base64Alphabet ==
  "ABCDEFGHIJKLMNOPQRSTUVWXYZabcdefghijklmnopqrstuvwxyz0123456789+/"

Base64Char(sextet) == SubSeq(Base64Alphabet, sextet + 1, sextet + 1)

\* The four characters that encode three bytes, the last group being
\* padded with "=" for the bytes it lacks.
base64Group(bytes) ==
  IF Len(bytes) = 1
  THEN Base64Char(bytes[1] \div 4) \o Base64Char((bytes[1] % 4) * 16) \o "=="
  ELSE IF Len(bytes) = 2
  THEN Base64Char(bytes[1] \div 4)
       \o Base64Char((bytes[1] % 4) * 16 + (bytes[2] \div 16))
       \o Base64Char((bytes[2] % 16) * 4) \o "="
  ELSE Base64Char(bytes[1] \div 4)
       \o Base64Char((bytes[1] % 4) * 16 + (bytes[2] \div 16))
       \o Base64Char((bytes[2] % 16) * 4 + (bytes[3] \div 64))
       \o Base64Char(bytes[3] % 64)

\* buffer.toString('base64')
base64Encode(bytes) ==
  concat([g \in 1..((Len(bytes) + 2) \div 3) |->
            base64Group(SubSeq(bytes, 3 * g - 2,
                               IF 3 * g < Len(bytes) THEN 3 * g
                               ELSE Len(bytes)))],
         1, (Len(bytes) + 2) \div 3)

IsBase64Char(c) == \E n \in 1..64 : SubSeq(Base64Alphabet, n, n) = c

\* The sextets of a base64 text as Buffer.from(text, 'base64') reads them:
\* it stops at the first "=" and skips every other character outside the
\* alphabet.
sextetsOf(text) ==
  LET Value(chars) ==
        [n \in 1..Len(chars) |->
           (CHOOSE m \in 1..64 : SubSeq(Base64Alphabet, m, m) = chars[n]) - 1]
      UpTo(last) ==
        Value(SelectSeq([n \in 1..last |-> SubSeq(text, n, n)], IsBase64Char))
  IN  UpTo(IF includes(text, "=") THEN indexOf(text, "=") - 1 ELSE Len(text))

\* The bytes that sextets spell: every four of them three bytes, and two or
\* three left over one or two bytes.
bytesOfSextets(s) ==
  [k \in 1..((Len(s) * 3) \div 4) |->
     CASE (k - 1) % 3 = 0 ->
            s[4 * ((k - 1) \div 3) + 1] * 4
              + (s[4 * ((k - 1) \div 3) + 2] \div 16)
       [] (k - 1) % 3 = 1 ->
            (s[4 * ((k - 1) \div 3) + 2] % 16) * 16
              + (s[4 * ((k - 1) \div 3) + 3] \div 4)
       [] (k - 1) % 3 = 2 ->
            (s[4 * ((k - 1) \div 3) + 3] % 4) * 64
              + s[4 * ((k - 1) \div 3) + 4]]

\* Buffer.from(text, 'base64')
base64Decode(text) == bytesOfSextets(sextetsOf(text))

HexDigits == "0123456789abcdef"

HexDigitsUpper == "0123456789ABCDEF"

\* The value of a hexadecimal digit of either case; -1 for any other
\* character.
hexValue(c) ==
  IF \E n \in 1..16 : SubSeq(HexDigits, n, n) = c
  THEN (CHOOSE n \in 1..16 : SubSeq(HexDigits, n, n) = c) - 1
  ELSE IF \E n \in 1..16 : SubSeq(HexDigitsUpper, n, n) = c
  THEN (CHOOSE n \in 1..16 : SubSeq(HexDigitsUpper, n, n) = c) - 1
  ELSE -1

\* Buffer.from(text, 'hex'): the bytes of the leading pairs of hexadecimal
\* digits; decoding stops at the first pair that is not one, and a single
\* trailing digit is dropped.
RECURSIVE hexDecode(_)
hexDecode(text) ==
  IF Len(text) < 2 THEN <<>>
  ELSE IF hexValue(SubSeq(text, 1, 1)) < 0 \/ hexValue(SubSeq(text, 2, 2)) < 0
  THEN <<>>
  ELSE <<hexValue(SubSeq(text, 1, 1)) * 16 + hexValue(SubSeq(text, 2, 2))>>
       \o hexDecode(SubSeq(text, 3, Len(text)))

HexByte(b) ==
  SubSeq(HexDigits, (b \div 16) + 1, (b \div 16) + 1)
    \o SubSeq(HexDigits, (b % 16) + 1, (b % 16) + 1)

\* The digest is built from the bytes lo..hi, each weighted by its place.
RECURSIVE weighted(_, _, _)
weighted(bytes, lo, hi) ==
  IF lo > hi THEN 0
  ELSE IF lo = hi THEN ((bytes[lo] + 1) * (lo * lo + lo + 41)) % 65536
  ELSE (weighted(bytes, lo, (lo + hi) \div 2)
        + weighted(bytes, ((lo + hi) \div 2) + 1, hi)) % 65536

\* crypto.createHmac('sha256', secret).update(text).digest('hex').  SHA-256
\* is not computed: the digest is a keyed 16-bit value of the text, written
\* as lowercase hexadecimal digits of a fixed length, as the real one is.
hmacHex(secret, text) ==
  LET Hex(h) == HexByte(h \div 256) \o HexByte(h % 256)
      Digest(key, sum) == Hex((key * 40503 + sum * 257 + Len(text)) % 65536)
  IN  Digest(weighted(bytesOf(secret), 1, Len(secret)),
             weighted(bytesOf(text), 1, Len(text)))

\* JavaScript values a cursor may carry.
Str(t) == [type |-> "string", text |-> t]

Num(n) == [type |-> "number", value |-> n]

Bool(b) == [type |-> "boolean", value |-> b]

Null == [type |-> "null"]

\* A plain object with number-valued properties, in insertion order.
PlainObject(entries) == [type |-> "object", entries |-> entries]

\* JSON.stringify of such an object.
stringifyObject(entries) ==
  "{" \o join([n \in 1..Len(entries) |->
                 "\"" \o entries[n].name \o "\":"
                   \o NumberToText(entries[n].value)], ",") \o "}"

\* `typeof data === 'object' ? JSON.stringify(data) : String(data)`
dataStr(data) ==
  CASE data.type = "object" -> stringifyObject(data.entries)
    [] data.type = "null" -> "null"
    [] data.type = "number" -> NumberToText(data.value)
    [] data.type = "boolean" -> IF data.value THEN "true" ELSE "false"
    [] data.type = "string" -> data.text

createSignedCursor(secret, data) ==
  LET Sign(payload) == payload \o "." \o hmacHex(secret, payload)
  IN  Sign(base64Encode(bytesOf(dataStr(data))))

\* String.prototype.split(sep) with a one-character separator.
RECURSIVE split(_, _)
split(s, sep) ==
  IF ~includes(s, sep) THEN <<s>>
  ELSE <<SubSeq(s, 1, indexOf(s, sep) - 1)>>
       \o split(SubSeq(s, indexOf(s, sep) + 1, Len(s)), sep)

\* The text is a JSON number without sign, fraction or exponent.
IsJsonInteger(t) ==
  /\ Len(t) > 0
  /\ \A n \in 1..Len(t) : includes(Digits, SubSeq(t, n, n))
  /\ Len(t) > 1 => SubSeq(t, 1, 1) # "0"

RECURSIVE TextToNumber(_)
TextToNumber(t) ==
  IF Len(t) = 0 THEN 0
  ELSE TextToNumber(SubSeq(t, 1, Len(t) - 1)) * 10
       + indexOf(Digits, SubSeq(t, Len(t), Len(t))) - 1

\* The text is a JSON string without escapes.
IsJsonString(t) ==
  /\ Len(t) >= 2
  /\ SubSeq(t, 1, 1) = "\"" /\ SubSeq(t, Len(t), Len(t)) = "\""
  /\ \A n \in 2..(Len(t) - 1) : SubSeq(t, n, n) \notin {"\"", "\\"}

\* The text is a member `"name":number` of a JSON object.
IsJsonMember(t) ==
  /\ includes(t, ":")
  /\ IsJsonString(SubSeq(t, 1, indexOf(t, ":") - 1))
  /\ IsJsonInteger(SubSeq(t, indexOf(t, ":") + 1, Len(t)))

JsonMember(t) ==
  [ name |-> SubSeq(t, 2, indexOf(t, ":") - 2),
    value |-> TextToNumber(SubSeq(t, indexOf(t, ":") + 1, Len(t))) ]

\* The text is a JSON object whose members are of that form.
IsJsonObject(t) ==
  /\ Len(t) >= 2
  /\ SubSeq(t, 1, 1) = "{" /\ SubSeq(t, Len(t), Len(t)) = "}"
  /\ Len(t) > 2 =>
       \A n \in 1..Len(split(SubSeq(t, 2, Len(t) - 1), ",")) :
         IsJsonMember(split(SubSeq(t, 2, Len(t) - 1), ",")[n])

\* JSON.parse on the JSON texts of this model (literals, unsigned integers,
\* strings without escapes, objects of integers): Obj(value), or None when
\* it throws a SyntaxError.
JSONparse(t) ==
  IF t = "null" THEN Obj(Null)
  ELSE IF t = "true" THEN Obj(Bool(TRUE))
  ELSE IF t = "false" THEN Obj(Bool(FALSE))
  ELSE IF IsJsonInteger(t) THEN Obj(Num(TextToNumber(t)))
  ELSE IF IsJsonString(t) THEN Obj(Str(SubSeq(t, 2, Len(t) - 1)))
  ELSE IF IsJsonObject(t)
  THEN Obj(PlainObject(
         IF Len(t) = 2 THEN <<>>
         ELSE [n \in 1..Len(split(SubSeq(t, 2, Len(t) - 1), ",")) |->
                 JsonMember(split(SubSeq(t, 2, Len(t) - 1), ",")[n])]))
  ELSE None

\* What a call gives back: a value, or an error thrown.
Returned(v) == [threw |-> FALSE, value |-> v]

Raised(n, m) == [threw |-> TRUE, name |-> n, message |-> m]

\* verifyAndDecodeCursor past the format check: payload and signature are
\* the two parts of the cursor.
verifyParts(secret, payload, signature) ==
  IF Len(hexDecode(signature)) # Len(hexDecode(hmacHex(secret, payload)))
  THEN Raised("RangeError", "Input buffers must have the same byte length")
  ELSE IF hexDecode(signature) # hexDecode(hmacHex(secret, payload))
  THEN Raised("Error", "Invalid cursor signature")
  ELSE LET Parsed(decoded, parsed) ==
             IF IsSet(parsed) THEN Returned(parsed[1])
             ELSE Returned(Str(decoded))
           Decode(decoded) == Parsed(decoded, JSONparse(decoded))
       IN  Decode(textOf(base64Decode(payload)))

verifyAndDecodeCursor_unsigned(secret, cursor) ==
  IF cursor = "" \/ cursor = undefined THEN Returned(Null)
  ELSE IF Len(split(cursor, ".")) # 2
  THEN Raised("Error", "Invalid cursor format")
  ELSE LET Parsed(decoded, parsed) ==
             IF IsSet(parsed) THEN Returned(parsed[1])
             ELSE Returned(Str(decoded))
           Decode(decoded) == Parsed(decoded, JSONparse(decoded))
       IN  Decode(textOf(base64Decode(split(cursor, ".")[1])))

verifyAndDecodeCursor(secret, cursor) ==
  IF cursor = "" \/ cursor = undefined THEN Returned(Null)
  ELSE IF Len(split(cursor, ".")) # 2
  THEN Raised("Error", "Invalid cursor format")
  ELSE verifyParts(secret, split(cursor, ".")[1], split(cursor, ".")[2])

\* The cursor module before anything was signed or verified.
NoCursors == [secret |-> None, issued |-> None, presented |-> None]

-----------------------------------------------------------------------------
(* config.js: validateConfigPath *)

\* String.prototype.replace with a global pattern that matches the literal
\* text pat: every occurrence, found left to right without overlap.
RECURSIVE replaceAll(_, _, _)
replaceAll(s, pat, rep) ==
  IF ~includes(s, pat) THEN s
  ELSE SubSeq(s, 1, indexOf(s, pat) - 1) \o rep
       \o replaceAll(SubSeq(s, indexOf(s, pat) + Len(pat), Len(s)), pat, rep)

\* String.prototype.startsWith
startsWith(s, prefix) ==
  Len(s) >= Len(prefix) /\ SubSeq(s, 1, Len(prefix)) = prefix

\* The directories left after the first n segments of a path were walked
\* from the root: "" and "." stay, ".." goes up (not above the root).
RECURSIVE walk(_, _)
walk(segments, n) ==
  LET Step(at) ==
        CASE segments[n] \in {"", "."} -> at
          [] segments[n] = ".." -> SubSeq(at, 1, Len(at) - 1)
          [] OTHER -> Append(at, segments[n])
  IN  IF n = 0 THEN <<>> ELSE Step(walk(segments, n - 1))

\* path.resolve(p) in a process whose working directory is cwd (POSIX).
pathResolve(cwd, p) ==
  LET Normal(segments) == "/" \o join(walk(segments, Len(segments)), "/")
  IN  Normal(split(IF startsWith(p, "/") THEN p ELSE cwd \o "/" \o p, "/"))

\* The directories a configuration file may be loaded from.
allowedDirs(cwd) == <<cwd, "/etc/lerian", "/etc/midaz">>

validateConfigPath(cwd, configPath) ==
  IF configPath = undefined \/ configPath = "" THEN Returned(TRUE)
  ELSE LET Check(resolvedPath) ==
             IF \E n \in 1..Len(allowedDirs(cwd)) :
                  startsWith(resolvedPath,
                             pathResolve(cwd, allowedDirs(cwd)[n]))
             THEN Returned(TRUE)
             ELSE Raised("Error", "Config path not allowed: " \o configPath)
       IN  Check(pathResolve(cwd,
                   replaceAll(replaceAll(configPath, "..", ""), "//", "/")))

-----------------------------------------------------------------------------
(* util/error-monitoring.ts: ErrorMonitor *)

ErrorSeverity ==
  [LOW |-> "low", MEDIUM |-> "medium", HIGH |-> "high", CRITICAL |-> "critical"]

PerformanceThresholds ==
  [FAST |-> 100, NORMAL |-> 500, SLOW |-> 1000, CRITICAL |-> 3000]

\* String.prototype.endsWith
endsWith(s, suffix) ==
  Len(s) >= Len(suffix)
    /\ SubSeq(s, Len(s) - Len(suffix) + 1, Len(s)) = suffix

\* map.set(key, (map.get(key) || 0) + 1) on a Map of counters, kept as the
\* function from the keys it holds to their counts.
increment(map, key) ==
  [k \in DOMAIN map \cup {key} |->
     IF k = key THEN (IF key \in DOMAIN map THEN map[key] ELSE 0) + 1
     ELSE map[k]]

\* The counts of the given keys added up (the reduce over the entries).
RECURSIVE sumOf(_, _)
sumOf(map, ks) ==
  IF ks = {} THEN 0
  ELSE LET Add(k) == map[k] + sumOf(map, ks \ {k})
       IN  Add(CHOOSE k \in ks : TRUE)

\* The calls made on a monitor, counted by severity and performance level:
\* kept beside the monitor's own metrics to state what they should say.
NoCalls ==
  [ low |-> 0, medium |-> 0, high |-> 0, critical |-> 0, fastOps |-> 0,
    normalOps |-> 0, slowOps |-> 0, criticalOps |-> 0, total |-> 0 ]

\* new ErrorMonitor(options)
newErrorMonitor(options) ==
  [ enabled |-> options.enabled # FALSE,
    performanceTracking |-> options.performanceTracking = TRUE,
    errors |-> <<>>, performance |-> <<>>, totalOperations |-> 0,
    calls |-> NoCalls ]

\* logError(error, severity): error.name is undefined for a value that is
\* no Error.
logError(m, error, severity) ==
  IF ~m.enabled THEN m
  ELSE [m EXCEPT !.errors =
          increment(m.errors,
                    severity \o ":" \o (IF Truthy(error.name) THEN error.name
                                        ELSE "Unknown"))]

categorizePerformance(duration) ==
  IF duration <= PerformanceThresholds.FAST THEN "fast"
  ELSE IF duration <= PerformanceThresholds.NORMAL THEN "normal"
  ELSE IF duration <= PerformanceThresholds.SLOW THEN "slow"
  ELSE "critical"

\* endPerformanceTracking for an operation that took duration milliseconds.
endPerformanceTracking(m, operationName, duration) ==
  IF ~m.enabled \/ ~m.performanceTracking THEN m
  ELSE [m EXCEPT
          !.performance =
             increment(m.performance,
                       operationName \o ":" \o categorizePerformance(duration)),
          !.totalOperations = @ + 1]

getErrorCountBySeverity(m, severity) ==
  sumOf(m.errors, {k \in DOMAIN m.errors : startsWith(k, severity)})

getPerformanceCountByLevel(m, level) ==
  sumOf(m.performance, {k \in DOMAIN m.performance : endsWith(k, level)})

Max(a, b) == IF a >= b THEN a ELSE b

Min(a, b) == IF a <= b THEN a ELSE b

calculateHealthScore_unclamped(m) ==
  100 - getErrorCountBySeverity(m, ErrorSeverity.CRITICAL) * 20
      - getErrorCountBySeverity(m, ErrorSeverity.HIGH) * 10
      - getErrorCountBySeverity(m, ErrorSeverity.MEDIUM) * 5
      - getErrorCountBySeverity(m, ErrorSeverity.LOW) * 1
      - getPerformanceCountByLevel(m, "slow") * 2
      - getPerformanceCountByLevel(m, "critical") * 10

calculateHealthScore(m) ==
  Max(0, Min(100,
    100 - getErrorCountBySeverity(m, ErrorSeverity.CRITICAL) * 20
        - getErrorCountBySeverity(m, ErrorSeverity.HIGH) * 10
        - getErrorCountBySeverity(m, ErrorSeverity.MEDIUM) * 5
        - getErrorCountBySeverity(m, ErrorSeverity.LOW) * 1
        - getPerformanceCountByLevel(m, "slow") * 2
        - getPerformanceCountByLevel(m, "critical") * 10))

----------------------------------------------------------------------------
(* Inputs and environment *)

Entry(n, v) == [name |-> n, value |-> v]

\* Caller-supplied pathParams objects (keys in insertion order): absent; one
\* key whose value needs escaping; the two ledger keys; an extra key whose
\* name is a prefix of a declared one, first and last; an empty value.
PathParamChoices ==
  { None,
    Obj(<<Entry("id", "ab cd")>>),
    Obj(<<Entry("organizationId", "o1"), Entry("id", "l1")>>),
    Obj(<<Entry("organization", "x"), Entry("organizationId", "o1"),
          Entry("id", "l1")>>),
    Obj(<<Entry("id", "l1"), Entry("organizationId", "o1"),
          Entry("organization", "x")>>),
    Obj(<<Entry("organizationId", "o1"), Entry("id", "")>>) }

ResourceNames == {"organizations", "ledgers", "holders", "bogus", "timeouts", ""}

ActionNames == {"get", "count", "delete", "create", "bogus", "constructor", ""}

QueryChoices ==
  { Obj(<<>>),
    Obj(<<QueryValue("limit", "scalar", "10")>>),
    Obj(<<QueryValue("filter", "object", "{\"a\":1}"),
          QueryValue("page", "null", "null")>>) }

ExecuteArgs ==
  { Args(r, a, pp, None, None) :
      r \in ResourceNames, a \in ActionNames, pp \in PathParamChoices }
    \cup { Args("organizations", "list", None, qp, None) : qp \in QueryChoices }
    \cup { Args("organizations", a, None, None, Obj("request body")) :
             a \in {"create", "count"} }

Statuses == {200, 204, 400, 401, 403, 404, 409, 422, 500, 503}

\* The reason phrase the backend sends with a status.
StatusText(s) ==
  CASE s = 200 -> "OK"
    [] s = 204 -> "No Content"
    [] s = 400 -> "Bad Request"
    [] s = 401 -> "Unauthorized"
    [] s = 403 -> "Forbidden"
    [] s = 404 -> "Not Found"
    [] s = 409 -> "Conflict"
    [] s = 422 -> "Unprocessable Entity"
    [] s = 500 -> "Internal Server Error"
    [] s = 503 -> "Service Unavailable"

Response(s, ct, t, valid, c) ==
  [ status |-> s, statusText |-> StatusText(s), contentType |-> ct,
    bodyText |-> t, jsonValid |-> valid, count |-> c ]

\* What a backend may answer: to HEAD a body-less response with or without
\* the Midaz-Total-Count header; otherwise a JSON body, an empty body
\* labelled JSON, or plain text.
Responses(method) ==
  IF method = "HEAD"
  THEN { Response(s, "", "", FALSE, c) :
           s \in Statuses, c \in {None, Obj("42")} }
  ELSE { Response(s, "application/json; charset=utf-8",
                  "{\"code\":\"0007\"}", TRUE, None) : s \in Statuses }
         \cup { Response(s, "application/json", "", FALSE, None) :
                  s \in Statuses }
         \cup { Response(s, "text/plain", "upstream failure", FALSE, None) :
                  s \in Statuses }

\* The DOMException AbortSignal.timeout(ms) aborts with.
TimeoutError ==
  Thrown("TimeoutError", "The operation was aborted due to timeout")

\* The deadline of the request's signal passing.
DeadlineExpired == [ kind |-> "timeout", err |-> TimeoutError ]

\* How fetch rejects: connection refused and DNS failure ("fetch failed"
\* with the cause attached), and the AbortSignal.timeout deadline.
NetworkErrors ==
  { [ kind |-> "refused", err |-> Thrown("TypeError", "fetch failed") ],
    [ kind |-> "dns", err |-> Thrown("TypeError", "fetch failed") ],
    DeadlineExpired }

----------------------------------------------------------------------------
(* Tool invocations *)

IdleInv ==
  [ pc |-> "idle", args |-> None, call |-> None, request |-> None,
    response |-> None, netError |-> "", result |-> None, fetches |-> 0 ]

Finish(i, result) ==
  inv' = [inv EXCEPT ![i].pc = "done", ![i].result = Obj(result)]

\* midaz-execute is called: handleExecute runs to its first suspension,
\* which is executeRequest's `await getConfig()`.
Execute(i, args) ==
  /\ inv[i].pc = "idle"
  /\ LET Started(h) ==
           IF "call" \in DOMAIN h
           THEN [ IdleInv EXCEPT !.pc = IF IsSet(configCache) THEN "config"
                                       ELSE "configPromise",
                                 !.args = Obj(args), !.call = Obj(h.call) ]
           ELSE [ IdleInv EXCEPT !.pc = "done", !.args = Obj(args),
                                 !.result = Obj(h.value) ]
     IN  inv' = [inv EXCEPT ![i] = Started(handleExecute(args))]
  /\ UNCHANGED <<utilVars, configPromise, configCache, lastResolve,
               registryWrites>>

SendRequest_sharedCall(i) ==
  /\ inv[i].pc \in {"config", "configPromise"}
  /\ configCache' = IF inv[i].pc = "configPromise" THEN Obj(configPromise)
                    ELSE configCache
  /\ \E j \in Invs :
       /\ IsSet(inv[j].call)
       /\ LET p == prepareRequest(configCache'[1], inv[j].call[1])
          IN  IF p.threw
              THEN Finish(i, handleExecuteCatch(p.err))
              ELSE inv' = [inv EXCEPT ![i].pc = "fetch",
                                      ![i].request = Obj(p.call),
                                      ![i].fetches = @ + 1]
  /\ UNCHANGED <<utilVars, configPromise, lastResolve, registryWrites>>

\* getConfig resumes (storing the resolved configuration if it found the
\* cache empty) and executeRequest runs on to its fetch call.
SendRequest(i) ==
  /\ inv[i].pc \in {"config", "configPromise"}
  /\ configCache' = IF inv[i].pc = "configPromise" THEN Obj(configPromise)
                    ELSE configCache
  /\ LET p == prepareRequest(configCache'[1], inv[i].call[1])
     IN  IF p.threw
         THEN Finish(i, handleExecuteCatch(p.err))
         ELSE inv' = [inv EXCEPT ![i].pc = "fetch",
                                 ![i].request = Obj(p.call),
                                 ![i].fetches = @ + 1]
  /\ UNCHANGED <<utilVars, configPromise, lastResolve, registryWrites>>

\* The backend answers.
FetchResponds(i, response) ==
  /\ inv[i].pc = "fetch"
  /\ response \in Responses(inv[i].request[1].method)
  /\ LET early == interpretHeaders(inv[i].request[1], response)
     IN  IF IsSet(early)
         THEN inv' = [inv EXCEPT ![i].pc = "done",
                                 ![i].response = Obj(response),
                                 ![i].result = Obj(createToolResponse(early[1]))]
         ELSE inv' = [inv EXCEPT ![i].pc = "body",
                                 ![i].response = Obj(response)]
  /\ UNCHANGED <<utilVars, configPromise, configCache, lastResolve,
               registryWrites>>

\* response.json() / response.text() settles.
ReadBody(i) ==
  /\ inv[i].pc = "body"
  /\ LET b == interpretBody(inv[i].request[1], inv[i].response[1])
     IN  IF b.threw THEN Finish(i, handleExecuteCatch(b.err))
         ELSE Finish(i, createToolResponse(b.value))
  /\ UNCHANGED <<utilVars, configPromise, configCache, lastResolve,
               registryWrites>>

FetchFails_retry(i, e) ==
  /\ inv[i].pc = "fetch"
  /\ e.kind = "timeout" => inv[i].request[1].timeout > 0
  /\ inv' = IF inv[i].fetches < 2
            THEN [inv EXCEPT ![i].fetches = @ + 1]
            ELSE [inv EXCEPT ![i].pc = "done", ![i].netError = e.kind,
                             ![i].result = Obj(handleExecuteCatch(e.err))]
  /\ UNCHANGED <<utilVars, configPromise, configCache, lastResolve,
               registryWrites>>

\* fetch rejects: no connection, no address, or the deadline of the signal
\* attached to the request passed (request.timeout is that deadline).
FetchFails(i, e) ==
  /\ inv[i].pc = "fetch"
  /\ e.kind = "timeout" => inv[i].request[1].timeout > 0
  /\ inv' = [inv EXCEPT ![i].pc = "done", ![i].netError = e.kind,
                        ![i].result = Obj(handleExecuteCatch(e.err))]
  /\ UNCHANGED <<utilVars, configPromise, configCache, lastResolve,
               registryWrites>>

\* The deadline passes while the body is being read: the signal aborts the
\* body stream and response.json() / response.text() rejects with it.
ReadBodyFails(i) ==
  /\ inv[i].pc = "body"
  /\ inv[i].request[1].timeout > 0
  /\ inv' = [inv EXCEPT ![i].pc = "done", ![i].netError = "timeout",
                        ![i].result = Obj(handleExecuteCatch(TimeoutError))]
  /\ UNCHANGED <<utilVars, configPromise, configCache, lastResolve,
               registryWrites>>

\* The tool response has been delivered; the slot is free again.
Return(i) ==
  /\ inv[i].pc = "done"
  /\ inv' = [inv EXCEPT ![i] = IdleInv]
  /\ UNCHANGED <<utilVars, configPromise, configCache, lastResolve,
               registryWrites>>

\* The deadline of checkHealth's signal, in milliseconds.
HealthTimeout == 5000

\* fetch parses its URL before anything else and rejects with a TypeError
\* when it is not absolute.
ParsesAsUrl(url) ==
  \/ Len(url) >= 7 /\ SubSeq(url, 1, 7) = "http://"
  \/ Len(url) >= 8 /\ SubSeq(url, 1, 8) = "https://"

HealthResult(response, component, baseUrl) ==
  [ healthy |-> responseOk(response), status |-> response.status,
    component |-> component, url |-> baseUrl ]

HealthFailure(err, component, baseUrl) ==
  [ healthy |-> FALSE, error |-> err.message, component |-> component,
    url |-> baseUrl ]

\* checkHealth(component) is called and suspends at `await getConfig()`.
CheckHealth(i, component) ==
  /\ inv[i].pc = "idle"
  /\ inv' = [inv EXCEPT ![i] =
       [ IdleInv EXCEPT !.pc = IF IsSet(configCache) THEN "healthConfig"
                               ELSE "healthConfigPromise",
                        !.args = Obj([component |-> component]) ]]
  /\ UNCHANGED <<utilVars, configPromise, configCache, lastResolve,
               registryWrites>>

\* getConfig resumes, the base URL is looked up and fetch is called; an
\* unparseable URL makes fetch reject at once, inside the try block.
HealthFetch(i) ==
  /\ inv[i].pc \in {"healthConfig", "healthConfigPromise"}
  /\ configCache' = IF inv[i].pc = "healthConfigPromise"
                    THEN Obj(configPromise) ELSE configCache
  /\ LET Fetch(component, baseUrl) ==
           IF ParsesAsUrl(ToText(baseUrl) \o "/health")
           THEN inv' = [inv EXCEPT ![i].pc = "healthFetch",
                  ![i].request = Obj([ method |-> "GET",
                                       url |-> ToText(baseUrl) \o "/health",
                                       baseUrl |-> baseUrl,
                                       timeout |-> HealthTimeout ]),
                  ![i].fetches = @ + 1]
           ELSE inv' = [inv EXCEPT ![i].pc = "done",
                  ![i].netError = "url",
                  ![i].request = Obj([ method |-> "GET",
                                       url |-> ToText(baseUrl) \o "/health",
                                       baseUrl |-> baseUrl,
                                       timeout |-> HealthTimeout ]),
                  ![i].result = Obj(HealthFailure(
                     Thrown("TypeError", "Failed to parse URL from "
                                           \o ToText(baseUrl) \o "/health"),
                     component, baseUrl))]
         Lookup(midazApi) ==
           Fetch(inv[i].args[1].component,
                 getComponentUrl(midazApi, inv[i].args[1].component))
     IN  Lookup(IF IsSet(configCache'[1].midazApi)
                THEN configCache'[1].midazApi[1] ELSE EmptyMidazApi)
  /\ UNCHANGED <<utilVars, configPromise, lastResolve, registryWrites>>

\* The backend answers the health request; the body is never read.
HealthResponds(i, response) ==
  /\ inv[i].pc = "healthFetch"
  /\ inv' = [inv EXCEPT ![i].pc = "done", ![i].response = Obj(response),
       ![i].result = Obj(HealthResult(response, inv[i].args[1].component,
                                      inv[i].request[1].baseUrl))]
  /\ UNCHANGED <<utilVars, configPromise, configCache, lastResolve,
               registryWrites>>

HealthFails_uncaught(i, e) ==
  /\ inv[i].pc = "healthFetch"
  /\ inv' = [inv EXCEPT ![i].pc = "rejected", ![i].netError = e.kind]
  /\ UNCHANGED <<utilVars, configPromise, configCache, lastResolve,
               registryWrites>>

\* The health request fails or its deadline passes: the catch block turns
\* the error into a result.
HealthFails(i, e) ==
  /\ inv[i].pc = "healthFetch"
  /\ inv' = [inv EXCEPT ![i].pc = "done", ![i].netError = e.kind,
       ![i].result = Obj(HealthFailure(e.err, inv[i].args[1].component,
                                       inv[i].request[1].baseUrl))]
  /\ UNCHANGED <<utilVars, configPromise, configCache, lastResolve,
               registryWrites>>

\* midaz-discover is called: handleDiscover has no suspension point and
\* runs to its return.
Discover(i, args) ==
  /\ inv[i].pc = "idle"
  /\ inv' = [inv EXCEPT ![i] =
       [ IdleInv EXCEPT !.pc = "done", !.args = Obj(args),
                        !.result = Obj(handleDiscover(args)) ]]
  /\ UNCHANGED <<utilVars, configPromise, configCache, lastResolve,
               registryWrites>>

\* Code of the server (the discovery tool, the dispatch facade, any module
\* that imports router.js) calls resolveAction and keeps what it returns.
CallerResolves(resource, action) ==
  /\ lastResolve' = Obj([ resource |-> resource, action |-> action,
                       descriptor |-> resolveAction(resource, action) ])
  /\ UNCHANGED <<utilVars, inv, configCache, configPromise, registryWrites>>

\* The caller runs `descriptor.pathParams[k].required = false` on the
\* descriptor it keeps.  router.js copies no field and nothing is frozen:
\* descriptor.pathParams is the registry's own object, so this is a write to
\* the registry.
CallerMutates(k) ==
  /\ IsSet(lastResolve)
  /\ ~IsError(lastResolve[1].descriptor)
  /\ HasOwn(lastResolve[1].descriptor.pathParams, k)
  /\ registryWrites' =
       registryWrites \cup {<<lastResolve[1].resource, lastResolve[1].action, k>>}
  /\ UNCHANGED <<utilVars, inv, configCache, configPromise, lastResolve>>

Init ==
  /\ inv = [i \in Invs |-> IdleInv]
  /\ configCache = None
  /\ configPromise \in Configs
  /\ lastResolve = None
  /\ registryWrites = {}
  /\ cursors = NoCursors
  /\ pathCheck = None
  /\ monitor = None
  /\ RestIdle

\* The steps of invocation i of midaz-execute with arguments drawn from A.
Invocation(i, A) ==
  \/ \E args \in A : Execute(i, args)
  \/ SendRequest(i)
  \/ \E r \in Responses("HEAD") \cup Responses("GET") : FetchResponds(i, r)
  \/ ReadBody(i)
  \/ \E e \in NetworkErrors : FetchFails(i, e)
  \/ ReadBodyFails(i)
  \/ Return(i)

\* The server on its own: one midaz-execute invocation at a time.
Next == Invocation("a", ExecuteArgs)

Spec == Init /\ [][Next]_vars

\* What the runtime guarantees of an invocation that has called fetch: the
\* timer of the request's signal fires.  The backend guarantees nothing: it
\* may never answer and never finish a body.
Scheduling(i) ==
  /\ WF_vars(FetchFails(i, DeadlineExpired))
  /\ WF_vars(ReadBodyFails(i))

SpecLive == Spec /\ Scheduling("a")

\* Configurations for the health check: those above, and one that
\* configures no backend at all.
HealthConfigs == Configs \cup { [ midazApi |-> None ] }

\* Component names a caller may pass: the four of urlMap, an unknown word,
\* none, and names every object inherits.
HealthComponents ==
  { "onboarding", "transaction", "crm", "ledger", "bogus", undefined,
    "constructor", "__proto__" }

InitHealth ==
  /\ inv = [i \in Invs |-> IdleInv]
  /\ configCache = None
  /\ configPromise \in HealthConfigs
  /\ lastResolve = None
  /\ registryWrites = {}
  /\ cursors = NoCursors
  /\ pathCheck = None
  /\ monitor = None
  /\ RestIdle

\* The server answering health checks, one at a time.
NextHealth ==
  \/ \E component \in HealthComponents : CheckHealth("a", component)
  \/ HealthFetch("a")
  \/ \E s \in Statuses :
       HealthResponds("a", Response(s, "application/json", "", FALSE, None))
  \/ \E e \in NetworkErrors : HealthFails("a", e)
  \/ Return("a")

\* The runtime resumes a function awaiting a settled promise, and the timer
\* of the signal fires; the backend guarantees nothing.
SpecHealth ==
  /\ InitHealth
  /\ [][NextHealth]_vars
  /\ WF_vars(HealthFetch("a"))
  /\ WF_vars(HealthFails("a", DeadlineExpired))

\* Resource, action and query words a caller of midaz-discover may send: a
\* registered name, a misspelt one, one that matches nothing, a name every
\* object inherits; undefined for an argument left out.
DiscoverResources ==
  { undefined, "organizations", "organization", "Holders", "ledgers",
    "bogus", "xyz" }

DiscoverActions == { undefined, "get", "count", "gett", "bogus", "constructor" }

DiscoverArgs ==
  { DiscoverArgsOf("list-resources", undefined, undefined, undefined,
                   undefined) }
    \cup { DiscoverArgsOf("describe-resource", r, a, undefined, undefined) :
             r \in DiscoverResources, a \in {undefined, "get"} }
    \cup { DiscoverArgsOf("describe-action", r, a, undefined, undefined) :
             r \in DiscoverResources, a \in DiscoverActions }
    \cup { DiscoverArgsOf("search", undefined, undefined, q, undefined) :
             q \in {undefined, "ledger", "CRM", "inflow", "zzz"} }
    \cup { DiscoverArgsOf("list-by-component", r, undefined, undefined, c) :
             r \in {undefined, "bogus"},
             c \in {undefined, "onboarding", "transaction", "crm", "ledger"} }
    \cup { DiscoverArgsOf("explain", undefined, undefined, undefined,
                          undefined) }

\* The server answering midaz-discover calls, one at a time.
NextDiscover ==
  \/ \E args \in DiscoverArgs : Discover("a", args)
  \/ Return("a")

SpecDiscover == Init /\ [][NextDiscover]_vars

\* Calls and backend answers for invocations that overlap: a GET with an
\* escaped parameter, a HEAD, a call that fails validation; two discover
\* calls; a success, a 404 and a HEAD answer.
ConcurrentExecuteArgs ==
  { Args("organizations", "get", Obj(<<Entry("id", "ab cd")>>), None, None),
    Args("organizations", "count", None, None, None),
    Args("organizations", "get", None, None, None) }

ConcurrentDiscoverArgs ==
  { DiscoverArgsOf("describe-action", "organizations", "get", undefined,
                   undefined),
    DiscoverArgsOf("describe-resource", "bogus", undefined, undefined,
                   undefined) }

ConcurrentResponses ==
  { Response(200, "application/json; charset=utf-8", "{\"code\":\"0007\"}",
             TRUE, None),
    Response(404, "application/json; charset=utf-8", "{\"code\":\"0007\"}",
             TRUE, None),
    Response(200, "", "", FALSE, Obj("42")) }

\* The server with invocations of both tools in progress at once: the steps
\* of the invocations interleave at their suspension points.
NextConcurrent ==
  \E i \in Invs :
    \/ \E args \in ConcurrentExecuteArgs : Execute(i, args)
    \/ \E args \in ConcurrentDiscoverArgs : Discover(i, args)
    \/ SendRequest(i)
    \/ \E r \in ConcurrentResponses : FetchResponds(i, r)
    \/ ReadBody(i)
    \/ \E e \in NetworkErrors : FetchFails(i, e)
    \/ ReadBodyFails(i)
    \/ Return(i)

SpecConcurrent == Init /\ [][NextConcurrent]_vars

\* Every resource and action name of the registry, and names that are in no
\* schema: unknown words, the empty string, and property names every object
\* inherits.
AllResourceNames ==
  { schema.resource : schema \in { allSchemas[i] : i \in DOMAIN allSchemas } }
    \cup {"bogus-resource"}

AllActionNames ==
  UNION { { schema.actions[n].name : n \in DOMAIN schema.actions } :
          schema \in { allSchemas[i] : i \in DOMAIN allSchemas } }
    \cup {"bogus-action", "Get", "", "constructor", "toString", "__proto__"}

\* The resolver applied to every pair of names.
NextResolve ==
  \E r \in AllResourceNames, a \in AllActionNames : CallerResolves(r, a)

SpecResolve == Init /\ [][NextResolve]_vars

\* Pairs a caller of the resolver asks for, and the execute calls made
\* beside it.
CallerPairs == {<<"organizations", "get">>, <<"ledgers", "get">>}

CallerExecuteArgs ==
  { Args("organizations", "get", pp, None, None) :
      pp \in {None, Obj(<<Entry("id", "ab cd")>>)} }

\* The server together with code that uses the descriptors it resolved.
NextCallers ==
  \/ Invocation("a", CallerExecuteArgs)
  \/ \E p \in CallerPairs : CallerResolves(p[1], p[2])
  \/ \E k \in {"id", "organizationId"} : CallerMutates(k)

SpecCallers == Init /\ [][NextCallers]_vars

-----------------------------------------------------------------------------
(* Signed cursors *)

\* Values of CURSOR_SECRET: one set in the environment, one drawn by
\* crypto.randomBytes(32).toString('hex') (shortened).
Secrets == {"cursor-secret-from-env", "9f86d081884c7d65"}

\* Values handed to createSignedCursor: strings (plain, empty, and ones that
\* read as JSON), numbers, objects.
CursorData ==
  { Str("abc"), Str("page-2"), Str(""), Str("123"), Str("true"),
    Str("{\"offset\":9999}"), Num(0), Num(100),
    PlainObject(<<>>),
    PlainObject(<<[name |-> "offset", value |-> 100]>>),
    PlainObject(<<[name |-> "offset", value |-> 100],
                  [name |-> "page", value |-> 2]>>) }

\* What a client may do to a cursor before it sends it back.
Tamperings ==
  { "none", "payload-forged", "payload-extended", "signature-flipped",
    "signature-uppercase", "signature-truncated", "signature-extended",
    "signature-removed", "one-part", "three-parts", "empty" }

Tamper(t, cursor) ==
  LET Change(payload, signature) ==
        CASE t = "none" -> cursor
          [] t = "payload-forged" ->
               base64Encode(bytesOf("{\"offset\":9999}")) \o "." \o signature
          [] t = "payload-extended" -> payload \o "A." \o signature
          [] t = "signature-flipped" ->
               payload \o "." \o SubSeq(signature, 1, Len(signature) - 1)
                 \o (IF SubSeq(signature, Len(signature), Len(signature)) = "a"
                     THEN "b" ELSE "a")
          [] t = "signature-uppercase" ->
               payload \o "." \o toUpperCase(signature)
          [] t = "signature-truncated" ->
               payload \o "." \o SubSeq(signature, 1, Len(signature) - 2)
          [] t = "signature-extended" -> cursor \o "zz"
          [] t = "signature-removed" -> payload \o "."
          [] t = "one-part" -> "no-signature-here"
          [] t = "three-parts" -> cursor \o ".x"
          [] t = "empty" -> ""
  IN  Change(split(cursor, ".")[1], split(cursor, ".")[2])

\* createSignedCursor(data) is called; the cursor goes out to the client.
CreateSignedCursor(data) ==
  /\ cursors' = [cursors EXCEPT
       !.issued = Obj([ data |-> data,
                        cursor |-> createSignedCursor(cursors.secret[1],
                                                      data) ]),
       !.presented = None]
  /\ UNCHANGED <<moreVars, inv, configCache, configPromise, lastResolve,
                 registryWrites, pathCheck, monitor>>

\* The client sends the cursor back, as issued or changed, and
\* verifyAndDecodeCursor is called on it.
VerifyAndDecodeCursor(t) ==
  /\ IsSet(cursors.issued)
  /\ LET Verify(cursor) ==
           cursors' = [cursors EXCEPT !.presented =
             Obj([ tampering |-> t, cursor |-> cursor,
                   outcome |-> verifyAndDecodeCursor(cursors.secret[1],
                                                     cursor) ])]
     IN  Verify(Tamper(t, cursors.issued[1].cursor))
  /\ UNCHANGED <<moreVars, inv, configCache, configPromise, lastResolve,
                 registryWrites, pathCheck, monitor>>

InitCursor ==
  /\ inv = [i \in Invs |-> IdleInv]
  /\ configCache = None
  /\ configPromise \in Configs
  /\ lastResolve = None
  /\ registryWrites = {}
  /\ cursors \in { [NoCursors EXCEPT !.secret = Obj(s)] : s \in Secrets }
  /\ pathCheck = None
  /\ monitor = None
  /\ RestIdle

NextCursor ==
  \/ \E data \in CursorData : CreateSignedCursor(data)
  \/ \E t \in Tamperings : VerifyAndDecodeCursor(t)

SpecCursor == InitCursor /\ [][NextCursor]_vars

-----------------------------------------------------------------------------
(* Configuration file paths *)

\* Working directories of the server process.
WorkingDirs == {"/home/app", "/srv/mcp"}

\* Values of --config: absolute and relative paths, inside and outside the
\* allowed directories, with and without ".." and doubled separators;
\* undefined and "" for an option left out.
ConfigPathHeads ==
  { "/etc/lerian", "/etc/lerian-evil", "/etc/midaz", "/etc/midaz2", "/etc",
    "/home/app", "/home/app2", "/srv/mcp", "/tmp", "conf", "./conf", "..",
    "../..", "conf/../..", "/etc/lerian/..", "/etc/../etc/lerian" }

ConfigPathTails ==
  { "/config.json", "/../config.json", "/sub//config.json",
    "/..../config.json" }

ConfigPaths ==
  { head \o tail : head \in ConfigPathHeads, tail \in ConfigPathTails }
    \cup { undefined, "", "config.json", "../../../etc/passwd", "/etc/passwd" }

\* loadConfig calls validateConfigPath on the path given with --config.
ValidateConfigPath(configPath) ==
  /\ pathCheck' = Obj([ cwd |-> pathCheck[1].cwd, configPath |-> configPath,
                        called |-> TRUE,
                        outcome |-> validateConfigPath(pathCheck[1].cwd,
                                                       configPath),
                        opened |-> None ])
  /\ UNCHANGED <<moreVars, inv, configCache, configPromise, lastResolve,
                 registryWrites, cursors, monitor>>

InitConfigPath ==
  /\ inv = [i \in Invs |-> IdleInv]
  /\ configCache = None
  /\ configPromise \in Configs
  /\ lastResolve = None
  /\ registryWrites = {}
  /\ cursors = NoCursors
  /\ pathCheck \in { Obj([ cwd |-> cwd, configPath |-> undefined,
                           called |-> FALSE, outcome |-> Returned(TRUE),
                           opened |-> None ]) :
                     cwd \in WorkingDirs }
  /\ monitor = None
  /\ RestIdle

NextConfigPath == \E configPath \in ConfigPaths : ValidateConfigPath(configPath)

SpecConfigPath == InitConfigPath /\ [][NextConfigPath]_vars

-----------------------------------------------------------------------------
(* Error monitoring *)

\* Calls made on one monitor.
MaxCalls == 6

\* Constructor options: the defaults, performance tracking switched on, and
\* a monitor switched off.
MonitorOptions ==
  { [enabled |-> TRUE, performanceTracking |-> FALSE],
    [enabled |-> TRUE, performanceTracking |-> TRUE],
    [enabled |-> FALSE, performanceTracking |-> TRUE] }

\* Values logged: Error objects, and a value with no name.
LoggedErrors == { [name |-> "Error"], [name |-> undefined] }

Severities == {"low", "medium", "high", "critical"}

\* Durations of tracked operations, in milliseconds: one at each threshold
\* and one beyond the last.
Durations == {100, 1000, 1001}

LogError(error, severity) ==
  /\ IsSet(monitor)
  /\ monitor[1].calls.total < MaxCalls
  /\ monitor' = Obj([ logError(monitor[1], error, severity) EXCEPT
                        !.calls[severity] = @ + 1, !.calls.total = @ + 1 ])
  /\ UNCHANGED <<moreVars, inv, configCache, configPromise, lastResolve,
                 registryWrites, cursors, pathCheck>>

EndPerformanceTracking(operationName, duration) ==
  /\ IsSet(monitor)
  /\ monitor[1].calls.total < MaxCalls
  /\ monitor' = Obj([ endPerformanceTracking(monitor[1], operationName,
                                             duration) EXCEPT
                        !.calls[categorizePerformance(duration) \o "Ops"] = @ + 1,
                        !.calls.total = @ + 1 ])
  /\ UNCHANGED <<moreVars, inv, configCache, configPromise, lastResolve,
                 registryWrites, cursors, pathCheck>>

InitMonitor ==
  /\ inv = [i \in Invs |-> IdleInv]
  /\ configCache = None
  /\ configPromise \in Configs
  /\ lastResolve = None
  /\ registryWrites = {}
  /\ cursors = NoCursors
  /\ pathCheck = None
  /\ monitor \in { Obj(newErrorMonitor(options)) : options \in MonitorOptions }
  /\ RestIdle

NextMonitor ==
  \/ \E error \in LoggedErrors, severity \in Severities :
       LogError(error, severity)
  \/ \E duration \in Durations : EndPerformanceTracking("api-call", duration)

SpecMonitor == InitMonitor /\ [][NextMonitor]_vars

----------------------------------------------------------------------------
(* util/http-pool.ts: request deduplication *)

\* generateRequestKey(url, options)
generateRequestKey(url, options) ==
  LET method == IF Truthy(options.method) THEN options.method ELSE "GET"
      body == IF Truthy(options.body)
              THEN JSONstringify(Body(FALSE, options.body))
              ELSE ""
  IN  method \o ":" \o url \o ":" \o body

\* `!options.method || options.method === 'GET'`
IsGetRequest(options) == ~Truthy(options.method) \/ options.method = "GET"

\* pendingRequests is a Map from key to promise; a promise is named by the
\* position of its fetch in pool.fetches.
has(pendingRequests, key) == \E e \in pendingRequests : e.key = key

get(pendingRequests, key) ==
  (CHOOSE e \in pendingRequests : e.key = key).promise

set(pendingRequests, key, promise) ==
  {e \in pendingRequests : e.key # key}
    \cup {[key |-> key, promise |-> promise]}

delete(pendingRequests, key) == {e \in pendingRequests : e.key # key}

\* getPendingRequestCount()
getPendingRequestCount(p) == Cardinality(p.pendingRequests)

PoolCallers == {"a", "b", "c"}

NoPool ==
  [ pendingRequests |-> {}, fetches |-> <<>>,
    calls |-> [c \in PoolCallers |-> None] ]

\* fetchWithPool(url, options) up to its return or its `await promise`:
\* the caller is handed the pending promise of its key, or a fetch is made
\* with its url and options (and recorded under the key for a GET).
fetchWithPool(p, caller, url, options) ==
  LET key == generateRequestKey(url, options)
      Call(promise, issued) ==
        Obj([ url |-> url, options |-> options, promise |-> promise,
              issued |-> issued ])
      made == Len(p.fetches) + 1
      request ==
        [ url |-> url, options |-> options, key |-> key,
          state |-> "pending", pooled |-> IsGetRequest(options) ]
  IN  IF IsGetRequest(options) /\ has(p.pendingRequests, key)
      THEN [p EXCEPT !.calls[caller] =
                       Call(get(p.pendingRequests, key), FALSE)]
      ELSE [p EXCEPT
             !.fetches = Append(p.fetches, request),
             !.pendingRequests =
               IF IsGetRequest(options)
               THEN set(p.pendingRequests, key, made)
               ELSE p.pendingRequests,
             !.calls[caller] = Call(made, TRUE)]

\* The promise of fetch f settles and fetchWithPool resumes in the call
\* that made it: the `finally` block deletes the key of a GET only when the
\* fetch resolved.
settle_keepRejected(p, f, outcome) ==
  [p EXCEPT
    !.fetches[f].state = outcome,
    !.pendingRequests =
      IF p.fetches[f].pooled /\ outcome = "resolved"
      THEN delete(p.pendingRequests, p.fetches[f].key)
      ELSE p.pendingRequests]

\* The promise of fetch f settles and fetchWithPool resumes in the call
\* that made it (its reaction is the first one on the promise): the
\* `finally` block deletes the key of a GET, whatever the outcome.
settle(p, f, outcome) ==
  [p EXCEPT
    !.fetches[f].state = outcome,
    !.pendingRequests =
      IF p.fetches[f].pooled
      THEN delete(p.pendingRequests, p.fetches[f].key)
      ELSE p.pendingRequests]

\* clearPendingRequests()
clearPendingRequests(p) == [p EXCEPT !.pendingRequests = {}]

PoolUrls == {"http://h/a", "http://h/b"}

\* A RequestInit object: method, Authorization header, body.
RequestInit(method, headers, body) ==
  [method |-> method, headers |-> headers, body |-> body]

\* The options of the callers: GETs of two users with and without the
\* method named, a GET with a body, a POST.
PoolOptions ==
  { RequestInit(undefined, "Bearer A", undefined),
    RequestInit("GET", "Bearer B", undefined),
    RequestInit("GET", "Bearer A", "x"),
    RequestInit("POST", "Bearer A", "x") }

\* What fetch does with a request: a GET must not carry a body.
FetchOutcomes(request) ==
  IF IsGetRequest(request.options) /\ Truthy(request.options.body)
  THEN {"rejected"}
  ELSE {"resolved", "rejected"}

FetchWithPool(caller, url, options) ==
  /\ ~IsSet(pool.calls[caller])
  /\ pool' = fetchWithPool(pool, caller, url, options)
  /\ UNCHANGED <<execVars, cursors, pathCheck, monitor, legacy, cache,
                 logFiles, env>>

FetchSettles(f, outcome) ==
  /\ pool.fetches[f].state = "pending"
  /\ outcome \in FetchOutcomes(pool.fetches[f])
  /\ pool' = settle(pool, f, outcome)
  /\ UNCHANGED <<execVars, cursors, pathCheck, monitor, legacy, cache,
                 logFiles, env>>

ClearPendingRequests ==
  /\ pool' = clearPendingRequests(pool)
  /\ UNCHANGED <<execVars, cursors, pathCheck, monitor, legacy, cache,
                 logFiles, env>>

\* The server with nothing but its configuration loaded.
ServerIdle ==
  /\ inv = [i \in Invs |-> IdleInv]
  /\ configCache = None
  /\ configPromise = [midazApi |-> Obj(EmptyMidazApi)]
  /\ lastResolve = None
  /\ registryWrites = {}
  /\ cursors = NoCursors
  /\ pathCheck = None
  /\ monitor = None

InitPool ==
  /\ ServerIdle
  /\ pool = NoPool
  /\ legacy = None
  /\ cache = None
  /\ logFiles = None
  /\ env = None

NextPool ==
  \/ \E caller \in PoolCallers, url \in PoolUrls, options \in PoolOptions :
       FetchWithPool(caller, url, options)
  \/ \E f \in DOMAIN pool.fetches, outcome \in {"resolved", "rejected"} :
       FetchSettles(f, outcome)
  \/ ClearPendingRequests

SpecPool == InitPool /\ [][NextPool]_vars

----------------------------------------------------------------------------
(* tools/balance.js, tools/ledger.js: the legacy financial tools *)

LegacyTools ==
  {"get-balance", "list-assets", "get-asset", "list-ledgers", "get-ledger"}

\* The tools that answer with a page of items.
IsListTool(tool) == tool \in {"list-assets", "list-ledgers"}

\* The sample data of the tool modules (first record, first fields).
sampleBalance ==
  [ id |-> "00000000-0000-0000-0000-000000000001", alias |-> "@savings",
    assetCode |-> "USD" ]

sampleAssets ==
  << [ id |-> "00000000-0000-0000-0000-000000000001", name |-> "US Dollar",
       code |-> "USD" ] >>

sampleLedgers ==
  << [ id |-> "00000000-0000-0000-0000-000000000001",
       name |-> "Main Ledger" ] >>

\* A value thrown that is not an Error: the object createErrorResponse made.
ThrewValue(v) == [threw |-> TRUE, value |-> v]

\* mcp-helpers createPaginatedResponse(items, args, metadata), as the
\* object holding what the handler passed to it.
createPaginatedResponse(items, args, metadata) ==
  [items |-> items, limit |-> args.limit, metadata |-> metadata]

\* The identifiers a tool takes from its arguments and writes into the
\* object it returns.
ReturnedIds(tool, args) ==
  CASE tool = "get-balance" ->
         [ organization_id |-> args.organization_id,
           ledger_id |-> args.ledger_id, account_id |-> args.id ]
    [] tool = "get-asset" ->
         [ organization_id |-> args.organization_id,
           ledger_id |-> args.ledger_id ]
    [] OTHER -> [ organization_id |-> args.organization_id ]

\* `if (config.useStubs) throw createErrorResponse(...)`
stubModeRefusal ==
  ThrewValue(createErrorResponse("RESOURCE_UNAVAILABLE",
    "Financial data unavailable: Server is running in stub mode. "
      \o "Connect to real backend services to access financial data.",
    undefined))

\* The catch block of a handler.
backendUnavailable(message) ==
  ThrewValue(createErrorResponse("RESOURCE_UNAVAILABLE",
    "Financial data unavailable: " \o message
      \o ". Backend service may be down.",
    undefined))

\* `!response` (get tools), `!response || !response.items` (list tools);
\* an answer is None for null or carries the response object.
IsEmptyResponse(tool, answer) ==
  \/ ~IsSet(answer.value)
  \/ IsListTool(tool) /\ ~IsSet(answer.value[1].items)

\* A handler that falls back to the sample records of its module when the
\* backend gives nothing.
legacyToolResume_sampleFallback(tool, args, answer) ==
  IF answer.threw \/ IsEmptyResponse(tool, answer)
  THEN CASE tool = "get-balance" ->
              Returned(ReturnedIds(tool, args) @@ sampleBalance)
         [] tool = "list-assets" ->
              Returned(createPaginatedResponse(sampleAssets, args,
                         [isStub |-> TRUE, dataSource |-> "stub"]))
         [] tool = "list-ledgers" ->
              Returned(createPaginatedResponse(sampleLedgers, args,
                         [isStub |-> TRUE, dataSource |-> "stub"]))
         [] tool = "get-asset" ->
              Returned(ReturnedIds(tool, args) @@ sampleAssets[1])
         [] OTHER -> Returned(ReturnedIds(tool, args) @@ sampleLedgers[1])
  ELSE IF IsListTool(tool)
  THEN Returned(createPaginatedResponse(answer.value[1].items[1], args,
                  [isStub |-> FALSE, dataSource |-> "api"]))
  ELSE Returned(ReturnedIds(tool, args) @@ answer.value[1].fields)

\* The try block of a handler from the point where the backend call has
\* answered: `answer` is what `await api...` gave, a value or an Error.
legacyToolResume(tool, args, answer) ==
  IF answer.threw
  THEN backendUnavailable(answer.message)
  ELSE IF IsEmptyResponse(tool, answer)
  THEN backendUnavailable("Backend service returned empty response")
  ELSE IF IsListTool(tool)
  THEN Returned(createPaginatedResponse(answer.value[1].items[1], args,
                  [isStub |-> FALSE, dataSource |-> "api"]))
  ELSE Returned(ReturnedIds(tool, args) @@ answer.value[1].fields)

\* Arguments that pass validateArgs.
LegacyArgs ==
  [ organization_id : {"11111111-1111-4111-8111-111111111111",
                       "22222222-2222-4222-8222-222222222222"},
    ledger_id : {"33333333-3333-4333-8333-333333333333"},
    id : {"44444444-4444-4444-8444-444444444444",
          "55555555-5555-4555-8555-555555555555"},
    limit : {10} ]

\* A response object of the api module: its own fields and, when it has
\* the property, its `items`.
ApiResponse(fields, items) == [fields |-> fields, items |-> items]

\* What a call of the api module may give: a record, a page of records
\* (empty or not), an object without items, null, or an Error.
ApiAnswers ==
  { Returned(Obj(ApiResponse([id |-> "66666666-6666-4666-8666-666666666666",
                              name |-> "backend record"], None))),
    Returned(Obj(ApiResponse([total |-> "1"],
      Obj(<< [id |-> "66666666-6666-4666-8666-666666666666",
              name |-> "backend record"] >>)))),
    Returned(Obj(ApiResponse([total |-> "0"], Obj(<<>>)))),
    Returned(None),
    Raised("Error", "fetch failed"),
    Raised("Error", "HTTP 503 Service Unavailable") }

NewLegacy(useStubs) ==
  [ useStubs |-> useStubs, pc |-> "idle", tool |-> undefined,
    args |-> None, apiCalls |-> 0, answer |-> None, outcome |-> None ]

\* A legacy tool is called: in stub mode it throws at once, otherwise it
\* calls the api module and waits.
CallLegacyTool(tool, args) ==
  /\ IsSet(legacy) /\ legacy[1].pc # "awaiting"
  /\ legacy' =
       IF legacy[1].useStubs
       THEN Obj([legacy[1] EXCEPT !.pc = "done", !.tool = tool,
                   !.args = Obj(args), !.apiCalls = 0, !.answer = None,
                   !.outcome = Obj(stubModeRefusal)])
       ELSE Obj([legacy[1] EXCEPT !.pc = "awaiting", !.tool = tool,
                   !.args = Obj(args), !.apiCalls = 1, !.answer = None,
                   !.outcome = None])
  /\ UNCHANGED <<execVars, cursors, pathCheck, monitor, pool, cache,
                 logFiles, env>>

\* The api call answers and the handler runs to its end.
ApiAnswersTool(answer) ==
  /\ IsSet(legacy) /\ legacy[1].pc = "awaiting"
  /\ legacy' =
       Obj([legacy[1] EXCEPT !.pc = "done", !.answer = Obj(answer),
              !.outcome = Obj(legacyToolResume(legacy[1].tool,
                                               legacy[1].args[1], answer))])
  /\ UNCHANGED <<execVars, cursors, pathCheck, monitor, pool, cache,
                 logFiles, env>>

InitLegacy ==
  /\ ServerIdle
  /\ pool = None
  /\ legacy \in { Obj(NewLegacy(useStubs)) : useStubs \in BOOLEAN }
  /\ cache = None
  /\ logFiles = None
  /\ env = None

NextLegacy ==
  \/ \E tool \in LegacyTools, args \in LegacyArgs : CallLegacyTool(tool, args)
  \/ \E answer \in ApiAnswers : ApiAnswersTool(answer)

SpecLegacy == InitLegacy /\ [][NextLegacy]_vars

----------------------------------------------------------------------------
(* midaz-execute: two invocations side by side *)

\* Calls that fail for each kind of reason: names that resolveAction
\* rejects, a name left out, a required path parameter left out, and calls
\* that reach the backend.
KindExecuteArgs ==
  { Args("bogus", "get", None, None, None),
    Args("timeouts", "get", None, None, None),
    Args("organizations", "bogus", None, None, None),
    Args("", "get", None, None, None),
    Args("organizations", "get", None, None, None),
    Args("organizations", "count", None, None, None),
    Args("organizations", "list", None, None, None) }

NextKinds == \E i \in Invs : Invocation(i, KindExecuteArgs)

SpecKinds == Init /\ [][NextKinds]_vars

----------------------------------------------------------------------------
(* midaz-execute: one action of each component *)

\* The list action of one resource of each recognized component.
ComponentExecuteArgs ==
  { Args(r, "list",
         Obj(<<Entry("organizationId", "o1"), Entry("ledgerId", "l1")>>),
         None, None) :
      r \in {"organizations", "holders", "transactions", "metadata-indexes"} }

NextComponents == Invocation("a", ComponentExecuteArgs)

SpecComponents == Init /\ [][NextComponents]_vars

----------------------------------------------------------------------------
(* config.js: loadConfig and the file named on the command line *)

\* loadConfig with --config-file configPath: the path is validated when it
\* is given, and when validation passes and a file exists under the path
\* as given, that file is read.  The file system takes a relative path
\* from the working directory; `fileExists` is what fs.existsSync finds.
loadConfigFile(cwd, configPath, fileExists) ==
  LET Load(outcome) ==
        [ cwd |-> cwd, configPath |-> configPath,
          called |-> Truthy(configPath),
          outcome |-> outcome,
          opened |-> IF Truthy(configPath) /\ ~outcome.threw /\ fileExists
                     THEN Obj(pathResolve(cwd, configPath))
                     ELSE None ]
  IN  Load(validateConfigPath(cwd, configPath))

LoadConfig(configPath, fileExists) ==
  /\ pathCheck' = Obj(loadConfigFile(pathCheck[1].cwd, configPath, fileExists))
  /\ UNCHANGED <<execVars, cursors, monitor, moreVars>>

NextLoadConfig ==
  \E configPath \in ConfigPaths, fileExists \in BOOLEAN :
    LoadConfig(configPath, fileExists)

SpecLoadConfig == InitConfigPath /\ [][NextLoadConfig]_vars

----------------------------------------------------------------------------
(* Cache: getOrCompute *)

CacheCallers == {"a", "b", "c"}

CacheKeys == {"k1", "k2"}

\* What a compute function may resolve to.
CacheValues == {"v1", "v2"}

\* A Cache just constructed; entries is the content of the LRUCache,
\* computes the number of times a compute function was called per key.
newCache ==
  [ entries |-> {}, hits |-> 0, misses |-> 0,
    computes |-> [k \in CacheKeys |-> 0],
    calls |-> [c \in CacheCallers |-> None] ]

\* this.cache.get(key): the value or undefined
cacheGet(c, key) ==
  IF \E e \in c.entries : e.key = key
  THEN (CHOOSE e \in c.entries : e.key = key).value
  ELSE undefined

\* Cache.set(key, value)
cacheSet(c, key, value) ==
  [c EXCEPT !.entries = {e \in c.entries : e.key # key}
                          \cup {[key |-> key, value |-> value]}]

\* getOrCompute up to its return or to `await compute()`: get(key) counts a
\* hit or a miss; on a miss compute is called.
getOrCompute(c, caller, key) ==
  LET during == {d \in CacheCallers :
                   /\ IsSet(c.calls[d])
                   /\ c.calls[d][1].key = key
                   /\ c.calls[d][1].pc = "computing"}
  IN  IF cacheGet(c, key) # undefined
      THEN [c EXCEPT
             !.hits = c.hits + 1,
             !.calls[caller] =
               Obj([ key |-> key, pc |-> "done", computed |-> FALSE,
                     during |-> during,
                     outcome |-> Obj(Returned(cacheGet(c, key))) ])]
      ELSE [c EXCEPT
             !.misses = c.misses + 1,
             !.computes[key] = c.computes[key] + 1,
             !.calls[caller] =
               Obj([ key |-> key, pc |-> "computing", computed |-> TRUE,
                     during |-> during, outcome |-> None ])]

\* The promise of compute() settles and getOrCompute resumes: a value is
\* stored and returned, a rejection is passed on.
computeSettles(c, caller, result) ==
  LET stored == IF result.threw THEN c
                ELSE cacheSet(c, c.calls[caller][1].key, result.value)
  IN  [stored EXCEPT
        !.calls[caller][1].pc = "done",
        !.calls[caller][1].outcome = Obj(result)]

GetOrCompute(caller, key) ==
  /\ ~IsSet(cache[1].calls[caller])
  /\ cache' = Obj(getOrCompute(cache[1], caller, key))
  /\ UNCHANGED <<execVars, cursors, pathCheck, monitor, pool, legacy,
                 logFiles, env>>

ComputeResolves(caller, value) ==
  /\ IsSet(cache[1].calls[caller])
  /\ cache[1].calls[caller][1].pc = "computing"
  /\ cache' = Obj(computeSettles(cache[1], caller, Returned(value)))
  /\ UNCHANGED <<execVars, cursors, pathCheck, monitor, pool, legacy,
                 logFiles, env>>

ComputeRejects(caller) ==
  /\ IsSet(cache[1].calls[caller])
  /\ cache[1].calls[caller][1].pc = "computing"
  /\ cache' = Obj(computeSettles(cache[1], caller,
                                 Raised("Error", "compute failed")))
  /\ UNCHANGED <<execVars, cursors, pathCheck, monitor, pool, legacy,
                 logFiles, env>>

InitCache ==
  /\ ServerIdle
  /\ pool = None
  /\ legacy = None
  /\ cache = Obj(newCache)
  /\ logFiles = None
  /\ env = None

NextCache ==
  \/ \E caller \in CacheCallers, key \in CacheKeys : GetOrCompute(caller, key)
  \/ \E caller \in CacheCallers, value \in CacheValues :
       ComputeResolves(caller, value)
  \/ \E caller \in CacheCallers : ComputeRejects(caller)

SpecCache == InitCache /\ [][NextCache]_vars

----------------------------------------------------------------------------
(* util/error-monitoring.ts: log files and their rotation *)

\* The constructor's reading of the two log options (0 for an option
\* left out).
logOptions(options) ==
  [ maxLogFiles |-> IF options.maxLogFiles # 0 THEN options.maxLogFiles
                    ELSE 10,
    maxLogSize |-> IF options.maxLogSize # 0 THEN options.maxLogSize
                   ELSE 10 * 1024 * 1024 ]

\* The files of one log name in the log directory: the size of the
\* current file (None when there is none) and the numbers of the rotated
\* files `name.N` that exist.
newLogFiles(options) ==
  [ options |-> logOptions(options), current |-> None, rotated |-> {} ]

\* The loop of rotateLogFile from i down to 1 over the rotated files.
RECURSIVE rotateFrom(_, _, _)
rotateFrom(rotated, maxLogFiles, i) ==
  IF i <= 0 THEN rotated
  ELSE rotateFrom(
         IF i \in rotated
         THEN IF i = maxLogFiles - 1
              THEN rotated \ {i}
              ELSE (rotated \ {i}) \cup {i + 1}
         ELSE rotated,
         maxLogFiles, i - 1)

\* rotateLogFile(logFile)
rotateLogFile(files) ==
  IF ~IsSet(files.current) THEN files
  ELSE IF files.current[1] < files.options.maxLogSize THEN files
  ELSE [files EXCEPT
         !.rotated = rotateFrom(files.rotated, files.options.maxLogFiles,
                                files.options.maxLogFiles - 1) \cup {1},
         !.current = None]

\* writeFileSync(logFile, logLine, {flag: 'a'})
appendLine(files, size) ==
  [files EXCEPT !.current =
     Obj((IF IsSet(files.current) THEN files.current[1] ELSE 0) + size)]

\* logToFileSystem(errorEntry) with a line of the given size.
logToFileSystem(files, size) == appendLine(rotateLogFile(files), size)

\* Options of the monitor: maxLogFiles left out, 1, 2 and 3; sizes in
\* bytes.
LogOptions == [ maxLogFiles : 0..3, maxLogSize : {2, 3} ]

LogLineSizes == {1, 2}

LogToFileSystem(size) ==
  /\ logFiles' = Obj(logToFileSystem(logFiles[1], size))
  /\ UNCHANGED <<execVars, cursors, pathCheck, monitor, pool, legacy,
                 cache, env>>

\* rotateLogFile called on its own.
RotateLogFile ==
  /\ logFiles' = Obj(rotateLogFile(logFiles[1]))
  /\ UNCHANGED <<execVars, cursors, pathCheck, monitor, pool, legacy,
                 cache, env>>

InitLogFiles ==
  /\ ServerIdle
  /\ pool = None
  /\ legacy = None
  /\ cache = None
  /\ logFiles \in { Obj(newLogFiles(options)) : options \in LogOptions }
  /\ env = None

NextLogFiles ==
  \/ \E size \in LogLineSizes : LogToFileSystem(size)
  \/ RotateLogFile

SpecLogFiles == InitLogFiles /\ [][NextLogFiles]_vars

----------------------------------------------------------------------------
(* util/secret-manager.js *)

\* The content of ~/.lerian/secrets.json.
SecretsFile(cursorSecret, cacheEncryptionKey) ==
  [cursorSecret |-> cursorSecret, cacheEncryptionKey |-> cacheEncryptionKey]

\* loadSecrets(): None for null (no file, or a file without both secrets).
loadSecrets(e) ==
  IF ~IsSet(e.file) THEN None
  ELSE IF ~Truthy(e.file[1].cursorSecret)
            \/ ~Truthy(e.file[1].cacheEncryptionKey)
  THEN None
  ELSE e.file

\* saveSecrets(secrets): the file is written when the directory allows it.
saveSecrets(e, secrets) ==
  IF e.writable THEN [e EXCEPT !.file = Obj(secrets)] ELSE e

\* What a getter gives: the secret and the state it leaves.
Got(secret, e) == [secret |-> secret, env |-> e]

\* getCursorSecret(); r1 and r2 are what generateSecret() gives when it is
\* called.
getCursorSecret(e, r1, r2) ==
  IF Truthy(e.CURSOR_SECRET) THEN Got(e.CURSOR_SECRET, e)
  ELSE IF IsSet(loadSecrets(e)) /\ Truthy(loadSecrets(e)[1].cursorSecret)
  THEN Got(loadSecrets(e)[1].cursorSecret, e)
  ELSE Got(r1, saveSecrets(e,
             SecretsFile(r1,
               IF IsSet(loadSecrets(e))
                  /\ Truthy(loadSecrets(e)[1].cacheEncryptionKey)
               THEN loadSecrets(e)[1].cacheEncryptionKey ELSE r2)))

\* getCacheEncryptionKey()
getCacheEncryptionKey(e, r1, r2) ==
  IF Truthy(e.CACHE_ENCRYPTION_KEY) THEN Got(e.CACHE_ENCRYPTION_KEY, e)
  ELSE IF IsSet(loadSecrets(e))
            /\ Truthy(loadSecrets(e)[1].cacheEncryptionKey)
  THEN Got(loadSecrets(e)[1].cacheEncryptionKey, e)
  ELSE Got(r1, saveSecrets(e,
             SecretsFile(
               IF IsSet(loadSecrets(e))
                  /\ Truthy(loadSecrets(e)[1].cursorSecret)
               THEN loadSecrets(e)[1].cursorSecret ELSE r2,
               r1)))

\* initializeSecrets(); random holds what the calls of generateSecret()
\* give, in order.
initializeSecrets(e, random) ==
  LET WithKey(cursor, key) ==
        LET assigned ==
              [key.env EXCEPT
                !.CURSOR_SECRET =
                  IF ~Truthy(key.env.CURSOR_SECRET) THEN cursor.secret
                  ELSE key.env.CURSOR_SECRET,
                !.CACHE_ENCRYPTION_KEY =
                  IF ~Truthy(key.env.CACHE_ENCRYPTION_KEY) THEN key.secret
                  ELSE key.env.CACHE_ENCRYPTION_KEY]
        IN  [assigned EXCEPT !.result =
              Obj([ cursorSecret |-> cursor.secret,
                    cacheEncryptionKey |-> key.secret,
                    source |->
                      IF Truthy(assigned.CURSOR_SECRET)
                         /\ Truthy(assigned.CACHE_ENCRYPTION_KEY)
                      THEN "environment" ELSE "auto-generated",
                    before |-> [ CURSOR_SECRET |-> e.CURSOR_SECRET,
                                 CACHE_ENCRYPTION_KEY |->
                                   e.CACHE_ENCRYPTION_KEY ] ])]
      WithCursor(cursor) ==
        WithKey(cursor, getCacheEncryptionKey(cursor.env, random[3], random[4]))
  IN  WithCursor(getCursorSecret(e, random[1], random[2]))

\* Values of an environment variable: unset, empty, set.
EnvValues(name) == {undefined, "", "secret of " \o name \o " in environment"}

\* secrets.json: absent, complete, without the cache key.
SecretsFiles ==
  { None,
    Obj(SecretsFile("cursor secret in file", "cache key in file")),
    Obj(SecretsFile("cursor secret in file", "")) }

\* Outputs of crypto.randomBytes(32).toString('hex') (first characters).
RandomSecrets ==
  { <<"9f2c", "41ab", "d07e", "6c35">>, <<"03b8", "e1f4", "5a99", "c27d">> }

InitializeSecrets(random) ==
  /\ env' = Obj(initializeSecrets(env[1], random))
  /\ UNCHANGED <<execVars, cursors, pathCheck, monitor, pool, legacy,
                 cache, logFiles>>

InitSecrets ==
  /\ ServerIdle
  /\ pool = None
  /\ legacy = None
  /\ cache = None
  /\ logFiles = None
  /\ env \in { Obj([ CURSOR_SECRET |-> c, CACHE_ENCRYPTION_KEY |-> k,
                     file |-> f, writable |-> w, result |-> None ]) :
                 c \in EnvValues("CURSOR_SECRET"),
                 k \in EnvValues("CACHE_ENCRYPTION_KEY"),
                 f \in SecretsFiles, w \in BOOLEAN }

NextSecrets == \E random \in RandomSecrets : InitializeSecrets(random)

SpecSecrets == InitSecrets /\ [][NextSecrets]_vars
----------------------------------------------------------------------------
(* Properties *)

Done(i) == inv[i].pc = "done"

ArgsOf(i) == inv[i].args[1]

ResultOf(i) == inv[i].result[1]

Failed(i) == Done(i) /\ ~ResultOf(i).ok

\* The action is declared by the schema registered under the resource.
Declared(resource, action) ==
  LET schema == getSchema(resource)
  IN  /\ IsSet(schema)
      /\ \E n \in 1..Len(schema[1].actions) :
           schema[1].actions[n].name = action

DeclaredDef(resource, action) ==
  LET acts == getSchema(resource)[1].actions
  IN  acts[CHOOSE n \in 1..Len(acts) : acts[n].name = action]

DeclaredPathParams(resource, action) ==
  OrEmpty(DeclaredDef(resource, action).pathParams)

\* The value the caller supplied under exactly this name ("" when none).
SuppliedValue(args, name) ==
  LET pp == OrEmpty(args.pathParams)
  IN  IF \E n \in 1..Len(pp) : pp[n].name = name
      THEN pp[CHOOSE n \in 1..Len(pp) : pp[n].name = name].value
      ELSE ""

\* A declared, required path parameter is absent or empty in the call.
RequiredMissing(args) ==
  /\ Declared(args.resource, args.action)
  /\ LET dpp == DeclaredPathParams(args.resource, args.action)
     IN  \E n \in 1..Len(dpp) :
           dpp[n].required /\ SuppliedValue(args, dpp[n].name) = ""

\* Resource and action are both given, and the pair is not in the registry.
ResolutionFails(args) ==
  /\ args.resource # "" /\ args.action # ""
  /\ ~Declared(args.resource, args.action)

\* C1: an execute call for a known resource and action that leaves a
\* required path parameter absent or empty fails with INVALID_PARAMS.
C1_MissingParamIsInvalidParams ==
  \A i \in Invs :
    (Done(i) /\ RequiredMissing(ArgsOf(i)))
      => (~ResultOf(i).ok /\ ResultOf(i).code = "INVALID_PARAMS")

\* C2: an execute call naming an unregistered resource, or an action the
\* known resource does not declare, fails with RESOURCE_NOT_FOUND.
C2_UnknownIsResourceNotFound ==
  \A i \in Invs :
    (Done(i) /\ ResolutionFails(ArgsOf(i)))
      => (~ResultOf(i).ok /\ ResultOf(i).code = "RESOURCE_NOT_FOUND")

\* C3: when the outbound call fails without a status (connection refused,
\* DNS failure, deadline expired) the call fails with RESOURCE_UNAVAILABLE.
C3_NetworkFailureIsUnavailable ==
  \A i \in Invs :
    (Done(i) /\ inv[i].netError \in {"refused", "dns", "timeout"})
      => (~ResultOf(i).ok /\ ResultOf(i).code = "RESOURCE_UNAVAILABLE")

\* The invocation got a backend response with a status outside 200-299.
AnsweredNon2xx(i) ==
  /\ Done(i)
  /\ IsSet(inv[i].response)
  /\ ~responseOk(inv[i].response[1])

\* C4: for every method, HEAD included, a response outside 200-299 ends the
\* invocation in a classified failure carrying status, statusText, body and
\* url, never in a success payload.
C4_Non2xxIsStructuredFailure ==
  \A i \in Invs :
    AnsweredNon2xx(i)
      => /\ ~ResultOf(i).ok
         /\ IsSet(ResultOf(i).detail)
         /\ ResultOf(i).detail[1].status = inv[i].response[1].status
         /\ ResultOf(i).detail[1].statusText = inv[i].response[1].statusText
         /\ ResultOf(i).detail[1].body.text = inv[i].response[1].bodyText
         /\ ResultOf(i).detail[1].url = inv[i].request[1].url

\* C5: an invocation whose action does not resolve, or that leaves a required
\* path parameter out, issues no outbound request at any point.
C5_NoRequestBeforeValidation ==
  \A i \in Invs :
    (IsSet(inv[i].args)
       /\ (~Declared(ArgsOf(i).resource, ArgsOf(i).action)
             \/ RequiredMissing(ArgsOf(i))))
      => (inv[i].fetches = 0 /\ ~IsSet(inv[i].request))

\* C5's case: a call without its required parameter has ended in a failure
\* with no request made.
C5_Witness ==
  \E i \in Invs :
    /\ Failed(i)
    /\ RequiredMissing(ArgsOf(i))
    /\ inv[i].fetches = 0

\* The segments of a path between its "/" separators.
RECURSIVE SplitPath(_)
SplitPath(p) ==
  LET i == indexOf(p, "/")
  IN  IF i = 0 THEN <<p>>
      ELSE <<SubSeq(p, 1, i - 1)>> \o SplitPath(SubSeq(p, i + 1, Len(p)))

\* The template with every `:name` segment replaced by the escaped value
\* supplied under that very name.
ExpectedPath(pathTemplate, args) ==
  LET segs == SplitPath(pathTemplate)
      Filled(seg) ==
        IF Len(seg) > 1 /\ SubSeq(seg, 1, 1) = ":"
        THEN encodeURIComponent(SuppliedValue(args, SubSeq(seg, 2, Len(seg))))
        ELSE seg
  IN  join([n \in 1..Len(segs) |-> Filled(segs[n])], "/")

\* C6: every dispatched request's URL path is the action's template with
\* each declared token replaced by the escaped value supplied under exactly
\* that name, whatever other keys pathParams holds and in whatever order.
C6_UrlIsTemplateWithOwnValues ==
  \A i \in Invs :
    (IsSet(inv[i].request) /\ Declared(ArgsOf(i).resource, ArgsOf(i).action))
      => inv[i].request[1].url =
           inv[i].request[1].baseUrl
             \o ExpectedPath(DeclaredDef(ArgsOf(i).resource,
                                         ArgsOf(i).action).path, ArgsOf(i))
             \o buildQueryString(OrEmpty(ArgsOf(i).queryParams))

\* C7: for a registered resource and an action name its schema does not
\* declare, resolveAction returns an error object, never a descriptor, whose
\* message lists the declared action names.
C7_UndeclaredActionIsError ==
  (IsSet(lastResolve)
     /\ IsSet(getSchema(lastResolve[1].resource))
     /\ ~Declared(lastResolve[1].resource, lastResolve[1].action))
    => /\ IsError(lastResolve[1].descriptor)
       /\ includes(lastResolve[1].descriptor.error,
                   join(keys(getSchema(lastResolve[1].resource)[1].actions),
                        ", "))

\* The code the taxonomy assigns to a non-2xx status.
CodeOfStatus(s) ==
  CASE s = 400 -> "INVALID_PARAMS"
    [] s \in {401, 403} -> "RESOURCE_ACCESS_DENIED"
    [] s = 404 -> "RESOURCE_NOT_FOUND"
    [] OTHER -> "BACKEND_ERROR"

\* C8: when the backend answers with a non-2xx status s the error code is a
\* function of s alone: 400 INVALID_PARAMS, 401/403 RESOURCE_ACCESS_DENIED,
\* 404 RESOURCE_NOT_FOUND, everything else BACKEND_ERROR.
C8_CodeIsFunctionOfStatus ==
  \A i \in Invs :
    AnsweredNon2xx(i)
      => /\ ~ResultOf(i).ok
         /\ ResultOf(i).code = CodeOfStatus(inv[i].response[1].status)

WordChars ==
  "ABCDEFGHIJKLMNOPQRSTUVWXYZabcdefghijklmnopqrstuvwxyz0123456789_"

\* The longest run of word characters of path from position j on.
RECURSIVE WordFrom(_, _)
WordFrom(path, j) ==
  IF j > Len(path) \/ ~includes(WordChars, SubSeq(path, j, j)) THEN ""
  ELSE SubSeq(path, j, j) \o WordFrom(path, j + 1)

\* The `:name` tokens of a path template.
PathTokens(path) ==
  { WordFrom(path, i + 1) :
      i \in { j \in 1..Len(path) : SubSeq(path, j, j) = ":" } } \ {""}

HttpMethods == {"GET", "POST", "PUT", "PATCH", "DELETE", "HEAD"}

\* C9: for every (resource, action) pair of the registry, resolveAction
\* returns a descriptor whose method is one of the six verbs and whose path
\* template's tokens are exactly the keys of its pathParams.
C9_DescriptorsWellFormed ==
  (IsSet(lastResolve) /\ Declared(lastResolve[1].resource, lastResolve[1].action))
    => LET d == lastResolve[1].descriptor
       IN  /\ ~IsError(d)
           /\ d.method \in HttpMethods
           /\ PathTokens(d.pathTemplate)
                = { d.pathParams[k].name : k \in 1..Len(d.pathParams) }

\* C9's case: a registered pair whose template has five tokens has been
\* resolved.
C9_Witness ==
  /\ IsSet(lastResolve)
  /\ Declared(lastResolve[1].resource, lastResolve[1].action)
  /\ ~IsError(lastResolve[1].descriptor)
  /\ Cardinality(PathTokens(lastResolve[1].descriptor.pathTemplate)) = 5

\* C10: the registry is never mutated after it is built: whatever callers do
\* with the values returned to them, resolveAction keeps returning the same
\* descriptor content for every pair.
C10_ResolveActionNeverChanges ==
  [][\A p \in CallerPairs :
       resolveAction(p[1], p[2])' = resolveAction(p[1], p[2])]_vars

\* C11: an invocation issues at most one outbound request, whatever its
\* outcome; a failed request is never issued again.
C11_AtMostOneRequest ==
  \A i \in Invs : inv[i].fetches <= 1

\* C11's case: an invocation whose request timed out has ended, having
\* issued that one request.
C11_Witness ==
  \E i \in Invs :
    /\ Failed(i)
    /\ inv[i].netError = "timeout"
    /\ inv[i].fetches = 1

\* The deadline executeRequest gives the request under a configuration.
ConfiguredTimeout(config) ==
  IF IsSet(config.midazApi) /\ config.midazApi[1].timeout # 0
  THEN config.midazApi[1].timeout
  ELSE 30000

\* C12: every request is issued with the configured deadline (30000 ms when
\* none is configured), and an invocation that has issued its request
\* eventually ends, in a timeout failure if the backend stays silent.
C12_IssuedRequestCompletes ==
  /\ [](\A i \in Invs :
          IsSet(inv[i].request)
            => inv[i].request[1].timeout = ConfiguredTimeout(configPromise))
  /\ \A i \in {"a"} : (inv[i].pc \in {"fetch", "body"}) ~> Done(i)

\* C12's case: with no timeout configured the request went out with the
\* 30000 ms deadline, no answer came and the invocation ended in the
\* timeout failure.
C12_Witness ==
  \E i \in Invs :
    /\ Failed(i)
    /\ inv[i].netError = "timeout"
    /\ ~IsSet(inv[i].response)
    /\ inv[i].request[1].timeout = 30000
    /\ ResultOf(i).message =
         "Request timed out. Check if the Midaz service is running and MIDAZ_*_URL is configured correctly."

\* What an execute call on its own comes to once fetch has settled: with
\* the response (if one came) and the way the request failed (if it did).
OutcomeAfterFetch(request, response, netError) ==
  IF ~IsSet(response)
  THEN handleExecuteCatch(IF netError = "timeout" THEN TimeoutError
                          ELSE Thrown("TypeError", "fetch failed"))
  ELSE IF IsSet(interpretHeaders(request, response[1]))
  THEN createToolResponse(interpretHeaders(request, response[1])[1])
  ELSE IF netError = "timeout" THEN handleExecuteCatch(TimeoutError)
  ELSE IF interpretBody(request, response[1]).threw
  THEN handleExecuteCatch(interpretBody(request, response[1]).err)
  ELSE createToolResponse(interpretBody(request, response[1]).value)

\* The outcome of an invocation run alone: from its own arguments, the
\* resolved configuration and the backend's answer to its own request.
OutcomeAlone(args, config, response, netError) ==
  IF "intent" \in DOMAIN args THEN handleDiscover(args)
  ELSE IF "value" \in DOMAIN handleExecute(args)
  THEN handleExecute(args).value
  ELSE IF prepareRequest(config, handleExecute(args).call).threw
  THEN handleExecuteCatch(prepareRequest(config, handleExecute(args).call).err)
  ELSE OutcomeAfterFetch(prepareRequest(config, handleExecute(args).call).call,
                         response, netError)

\* C13: the outcome of an invocation is the outcome it has when run alone on
\* its own arguments, the configuration and the answer to its own request,
\* however its steps interleave with those of another invocation.
C13_OutcomeIndependentOfInterleaving ==
  \A i \in Invs :
    Done(i) => ResultOf(i) = OutcomeAlone(ArgsOf(i), configPromise,
                                          inv[i].response, inv[i].netError)

\* C13's case: two execute calls with different arguments both started
\* with the configuration cache empty, and one has ended with the answer to
\* its own request while the other is still waiting for its answer.
C13_Witness ==
  \E i, j \in Invs :
    /\ i # j
    /\ Done(i) /\ inv[i].fetches = 1 /\ IsSet(inv[i].response)
    /\ inv[j].pc = "fetch"
    /\ ArgsOf(i) # ArgsOf(j)
    /\ ResultOf(i).ok

\* The invocation is a midaz-discover call.
IsDiscover(i) == IsSet(inv[i].args) /\ "intent" \in DOMAIN ArgsOf(i)

\* Some name of the sequence occurs in the text.
NamesOneOf(text, names) ==
  \E n \in 1..Len(names) : includes(text, names[n])

\* C15: a describe-resource or describe-action call whose resource is not
\* registered, or whose action the resource does not declare, is answered
\* with an error that lists valid names of the registry: resource names for
\* an unknown resource, the resource's action names for an unknown action.
C15_UnknownGetsSuggestions ==
  \A i \in Invs :
    (/\ Done(i) /\ IsDiscover(i)
     /\ ArgsOf(i).resource # undefined /\ ArgsOf(i).resource # ""
     /\ \/ /\ ArgsOf(i).intent = "describe-resource"
           /\ ~IsSet(getSchema(ArgsOf(i).resource))
        \/ /\ ArgsOf(i).intent = "describe-action"
           /\ ArgsOf(i).action # undefined /\ ArgsOf(i).action # ""
           /\ ~Declared(ArgsOf(i).resource, ArgsOf(i).action))
      => /\ ~ResultOf(i).ok
         /\ IF IsSet(getSchema(ArgsOf(i).resource))
            THEN NamesOneOf(ResultOf(i).message,
                   keys(getSchema(ArgsOf(i).resource)[1].actions))
            ELSE NamesOneOf(ResultOf(i).message,
                   [ n \in 1..Len(getAllSchemas) |->
                       getAllSchemas[n].resource ])


\* A health check is in progress in slot i.
HealthPending(i) ==
  inv[i].pc \in {"healthConfig", "healthConfigPromise", "healthFetch"}

\* The base URL the configuration gives a component.
BaseUrlOf(config, component) ==
  getComponentUrl(IF IsSet(config.midazApi) THEN config.midazApi[1]
                  ELSE EmptyMidazApi, component)

\* C14: checkHealth always resolves, for every component name and every
\* configuration: to {healthy, status, component, url} when the health
\* request got a response, and to {healthy: false, error, component, url}
\* on every failure (network error, unconfigured base URL, expiry of the
\* 5-second deadline).
C14_CheckHealthResolves ==
  /\ [](\A i \in {"a"} :
          Done(i) =>
            /\ ResultOf(i).component = ArgsOf(i).component
            /\ ResultOf(i).url = BaseUrlOf(configPromise, ArgsOf(i).component)
            /\ inv[i].request[1].timeout = 5000
            /\ IF IsSet(inv[i].response)
               THEN /\ DOMAIN ResultOf(i)
                         = {"healthy", "status", "component", "url"}
                    /\ ResultOf(i).status = inv[i].response[1].status
                    /\ ResultOf(i).healthy
                         = (inv[i].response[1].status \in 200..299)
               ELSE /\ DOMAIN ResultOf(i)
                         = {"healthy", "error", "component", "url"}
                    /\ ResultOf(i).healthy = FALSE
                    /\ inv[i].netError # ""
                    /\ ResultOf(i).error # "")
  /\ \A i \in {"a"} : HealthPending(i) ~> Done(i)

C14_Witness ==
  \E i \in {"a"} :
    /\ Done(i)
    /\ inv[i].netError = "timeout"
    /\ ~IsSet(configPromise.midazApi) = FALSE
    /\ ArgsOf(i).component = "bogus"
    /\ ResultOf(i) = [ healthy |-> FALSE,
                       error |-> "The operation was aborted due to timeout",
                       component |-> "bogus",
                       url |-> configPromise.midazApi[1].onboardingUrl ]

\* The resource is the name of a schema of the registry.
Registered(resource) ==
  \E n \in DOMAIN allSchemas : allSchemas[n].resource = resource

\* C16: resolveAction never throws; for a resource name that is not in the
\* registry it returns an error object whose message refers the caller to
\* midaz-discover.
C16_ResolveNeverThrows ==
  IsSet(lastResolve) =>
    /\ "threw" \notin DOMAIN lastResolve[1].descriptor
    /\ IsError(lastResolve[1].descriptor)
         \/ lastResolve[1].descriptor.resource = lastResolve[1].resource
    /\ ~Registered(lastResolve[1].resource) =>
         /\ IsError(lastResolve[1].descriptor)
         /\ includes(lastResolve[1].descriptor.error, "midaz-discover")
         /\ includes(lastResolve[1].descriptor.error,
                     "\"" \o lastResolve[1].resource \o "\"")

C16_Witness ==
  /\ IsSet(lastResolve)
  /\ lastResolve[1].resource = "bogus-resource"
  /\ lastResolve[1].action = "get"
  /\ lastResolve[1].descriptor =
       [ error |-> "Unknown resource \"bogus-resource\". Use midaz-discover to list available resources." ]

\* The cursor verified last and the issued cursor it was made from.
Presented == cursors.presented[1]

Issued == cursors.issued[1]

TwoParts(cursor) == cursor # "" /\ Len(split(cursor, ".")) = 2

\* C17: verifyAndDecodeCursor returns decoded data only for a cursor
\* payload.signature whose signature is the HMAC of the payload under the
\* server secret; every two-part cursor whose payload or signature was
\* altered after signing makes it throw 'Invalid cursor signature'.
C17_TamperedCursorRejected ==
  IsSet(cursors.presented) /\ TwoParts(Presented.cursor) =>
    /\ ~Presented.outcome.threw =>
         split(Presented.cursor, ".")[2]
           = hmacHex(cursors.secret[1], split(Presented.cursor, ".")[1])
    /\ Presented.cursor # Issued.cursor =>
         /\ Presented.outcome.threw
         /\ Presented.outcome.message = "Invalid cursor signature"

\* C19: verifyAndDecodeCursor(createSignedCursor(d)) returns a value equal
\* to d, for every string, number or object d.
C19_CursorRoundTrip ==
  IsSet(cursors.presented) /\ Presented.cursor = Issued.cursor =>
    /\ ~Presented.outcome.threw
    /\ Presented.outcome.value = Issued.data

\* The location is the directory or lies below it.
LocatedIn(location, dir) == location = dir \/ startsWith(location, dir \o "/")

\* The path given to the latest call of validateConfigPath names a
\* location in one of the allowed directories.
PathInsideAllowed ==
  \E dir \in {pathCheck[1].cwd, "/etc/lerian", "/etc/midaz"} :
    LocatedIn(pathResolve(pathCheck[1].cwd, pathCheck[1].configPath), dir)

\* C18: validateConfigPath throws 'Config path not allowed' for every
\* non-empty path that resolves to a location outside the working
\* directory, /etc/lerian and /etc/midaz, and returns true only for paths
\* inside one of them (or for an empty or absent path).
C18_OnlyAllowedDirsPass ==
  IsSet(pathCheck) /\ pathCheck[1].called =>
    IF pathCheck[1].configPath \in {undefined, ""}
    THEN pathCheck[1].outcome = Returned(TRUE)
    ELSE /\ ~PathInsideAllowed =>
              /\ pathCheck[1].outcome.threw
              /\ startsWith(pathCheck[1].outcome.message,
                            "Config path not allowed")
         /\ ~pathCheck[1].outcome.threw => PathInsideAllowed

\* The counts a monitor has recorded of the calls made on it: none when it
\* is switched off, no operations when performance tracking is off.
Recorded(m, kind) ==
  IF ~m.enabled THEN 0
  ELSE IF kind \in {"slowOps", "criticalOps"} /\ ~m.performanceTracking THEN 0
  ELSE m.calls[kind]

ExpectedScore(m) ==
  Max(0, Min(100, 100 - 20 * Recorded(m, "critical") - 10 * Recorded(m, "high")
                      - 5 * Recorded(m, "medium") - 1 * Recorded(m, "low")
                      - 2 * Recorded(m, "slowOps")
                      - 10 * Recorded(m, "criticalOps")))

\* C20: after any sequence of logged errors and tracked operations,
\* calculateHealthScore is max(0, min(100, 100 - 20*critical - 10*high
\* - 5*medium - 1*low - 2*slowOps - 10*criticalOps)) over the counts
\* recorded so far; it lies in 0..100 and never increases when another
\* error is logged.
C20_HealthScore ==
  /\ [](IsSet(monitor) =>
          /\ calculateHealthScore(monitor[1]) = ExpectedScore(monitor[1])
          /\ calculateHealthScore(monitor[1]) \in 0..100)
  /\ [][calculateHealthScore(monitor'[1]) <= calculateHealthScore(monitor[1])]_vars

C20_Witness ==
  /\ IsSet(monitor)
  /\ monitor[1].calls.critical = 4
  /\ monitor[1].calls.high = 1
  /\ monitor[1].calls.criticalOps = 1
  /\ monitor[1].performanceTracking /\ monitor[1].enabled
  /\ DOMAIN monitor[1].errors = {"critical:Error", "critical:Unknown", "high:Error"}
  /\ calculateHealthScore(monitor[1]) = 0

----------------------------------------------------------------------------
(* util/http-pool.ts *)

\* The fetches that have not settled yet.
InFlight == {f \in DOMAIN pool.fetches : pool.fetches[f].state = "pending"}

\* C21: at any moment at most one fetch is in flight for a GET request key
\* (method, URL, body), and a GET call made while a GET of its key is in
\* flight made no fetch of its own but holds the promise of one that was
\* made for that key, whatever the order of fetchWithPool calls, request
\* completions and clearPendingRequests.
C21_OneFetchPerKey ==
  /\ \A f \in InFlight, g \in InFlight :
       /\ pool.fetches[f].pooled /\ pool.fetches[g].pooled
       /\ pool.fetches[f].key = pool.fetches[g].key
       => f = g
  /\ \A c \in PoolCallers :
       IsSet(pool.calls[c]) /\ IsGetRequest(pool.calls[c][1].options) =>
         pool.fetches[pool.calls[c][1].promise].key =
           generateRequestKey(pool.calls[c][1].url, pool.calls[c][1].options)

\* C25: the response a caller of fetchWithPool receives is the response to
\* a request that carries its own url and options: no caller receives the
\* response to a fetch made with other headers than its own.
C25_OwnResponse ==
  \A c \in PoolCallers :
    /\ IsSet(pool.calls[c])
    /\ pool.fetches[pool.calls[c][1].promise].state = "resolved"
    =>
      /\ pool.fetches[pool.calls[c][1].promise].url = pool.calls[c][1].url
      /\ pool.fetches[pool.calls[c][1].promise].options =
           pool.calls[c][1].options

----------------------------------------------------------------------------
(* tools/balance.js, tools/ledger.js *)

\* A code of the thrown object of a finished legacy tool call, "" when the
\* call returned.
LegacyThrown ==
  IF legacy[1].outcome[1].threw THEN legacy[1].outcome[1].value.code ELSE ""

----------------------------------------------------------------------------
(* midaz-execute: classification of failures *)

\* The kind of reason for which invocation i failed, with the status for
\* a response of the backend: a name left out, a pair that resolveAction
\* rejects, a required path parameter missing, the deadline, a connection
\* failure, an HTTP status, or something else.
FailureKind(i) ==
  IF ArgsOf(i).resource = "" \/ ArgsOf(i).action = ""
  THEN <<"name required", 0>>
  ELSE IF IsError(resolveAction(ArgsOf(i).resource, ArgsOf(i).action))
  THEN <<"resolution failure", 0>>
  ELSE IF ~IsSet(inv[i].call)
  THEN <<"missing parameter", 0>>
  ELSE IF inv[i].netError = "timeout"
  THEN <<"timeout", 0>>
  ELSE IF inv[i].netError # ""
  THEN <<"connection failure", 0>>
  ELSE IF IsSet(inv[i].response) /\ ~responseOk(inv[i].response[1])
  THEN <<"HTTP status", inv[i].response[1].status>>
  ELSE <<"other", 0>>

\* C23: the error code of a failed midaz-execute call is determined by the
\* kind of failure alone and not by the text of the resource or action
\* name: two calls that fail for the same kind of reason get the same code.
C23_CodeByKindAlone ==
  \A i \in Invs, j \in Invs :
    Failed(i) /\ Failed(j) /\ FailureKind(i) = FailureKind(j)
      => ResultOf(i).code = ResultOf(j).code

----------------------------------------------------------------------------
(* client.js: the backend a request goes to *)

RecognizedComponents == {"onboarding", "transaction", "crm", "ledger"}

\* The base URL the configuration holds for a recognized component,
\* undefined when it holds none.
OwnBaseUrl(config, component) ==
  LET midazApi == IF IsSet(config.midazApi) THEN config.midazApi[1]
                  ELSE EmptyMidazApi
  IN  CASE component = "onboarding" -> midazApi.onboardingUrl
        [] component = "transaction" -> midazApi.transactionUrl
        [] component = "crm" -> midazApi.crmUrl
        [] component = "ledger" -> midazApi.ledgerUrl

\* C24: a request for an action whose resource belongs to one of the four
\* recognized components is sent to the base URL configured for that
\* component, never to the base URL of another component.
C24_OwnComponentUrl ==
  \A i \in Invs :
    /\ IsSet(inv[i].request)
    /\ inv[i].call[1].component \in RecognizedComponents
    => /\ inv[i].request[1].baseUrl =
            OwnBaseUrl(configPromise, inv[i].call[1].component)
       /\ \A other \in RecognizedComponents \ {inv[i].call[1].component} :
            inv[i].request[1].baseUrl = OwnBaseUrl(configPromise, other)
              => OwnBaseUrl(configPromise, other) =
                   OwnBaseUrl(configPromise, inv[i].call[1].component)

----------------------------------------------------------------------------
(* config.js: loadConfig *)

\* The location validateConfigPath compared with the allowed directories
\* in the latest call.
ApprovedLocation ==
  pathResolve(pathCheck[1].cwd,
              replaceAll(replaceAll(pathCheck[1].configPath, "..", ""),
                         "//", "/"))

\* C26: loadConfig reads the file named by --config-file only if the
\* location the path resolves to lies inside an allowed directory, and the
\* location that validateConfigPath approved is the location opened.
C26_OpensWhatItApproved ==
  IsSet(pathCheck) /\ IsSet(pathCheck[1].opened) =>
    /\ \E dir \in {pathCheck[1].cwd, "/etc/lerian", "/etc/midaz"} :
         LocatedIn(pathCheck[1].opened[1], dir)
    /\ pathCheck[1].opened[1] = ApprovedLocation

----------------------------------------------------------------------------
(* Cache.getOrCompute *)

\* Caller d called getOrCompute for a key while the call of caller c for
\* the same key was waiting for its computation.
Overlapping(c, d) ==
  /\ IsSet(cache[1].calls[c]) /\ IsSet(cache[1].calls[d])
  /\ c \in cache[1].calls[d][1].during

\* C27: of overlapping getOrCompute calls for a key that is not cached,
\* at most one runs the compute function, and the calls that have
\* returned a value returned the same one, the value left in the cache.
C27_ComputeOnce ==
  \A c \in CacheCallers, d \in CacheCallers :
    Overlapping(c, d) =>
      /\ ~(cache[1].calls[c][1].computed /\ cache[1].calls[d][1].computed)
      /\ \A e \in {c, d} :
           /\ cache[1].calls[e][1].pc = "done"
           /\ ~cache[1].calls[e][1].outcome[1].threw
           /\ \A f \in {c, d} : cache[1].calls[f][1].pc = "done"
           => cache[1].calls[e][1].outcome[1].value
                = cacheGet(cache[1], cache[1].calls[e][1].key)

----------------------------------------------------------------------------
(* util/error-monitoring.ts: rotateLogFile *)

\* The number of files kept for the log name: the current file and its
\* numbered rotations.
FilesKept ==
  Cardinality(logFiles[1].rotated)
    + (IF IsSet(logFiles[1].current) THEN 1 ELSE 0)

\* C28: whatever was logged and rotated, the number of files kept for one
\* log name (the current file and its rotations .1, .2, ...) is at most
\* maxLogFiles, for every configured maxLogFiles of 1 or more.
C28_AtMostMaxLogFiles ==
  IsSet(logFiles) => FilesKept <= logFiles[1].options.maxLogFiles

----------------------------------------------------------------------------
(* util/secret-manager.js: initializeSecrets *)

\* Both secrets were set in the environment before the latest call.
BothSuppliedBefore ==
  /\ Truthy(env[1].result[1].before.CURSOR_SECRET)
  /\ Truthy(env[1].result[1].before.CACHE_ENCRYPTION_KEY)

\* C30: initializeSecrets reports source 'environment' only when both
\* CURSOR_SECRET and CACHE_ENCRYPTION_KEY were set in the environment
\* before the call, and 'auto-generated' whenever one of them was not.
C30_SourceReported ==
  IsSet(env) /\ IsSet(env[1].result) =>
    /\ env[1].result[1].source = "environment" => BothSuppliedBefore
    /\ ~BothSuppliedBefore => env[1].result[1].source = "auto-generated"

====
